---- MODULE Spec2Model ----
(***************************************************************************)
(* The generation request gatekeeper of the pixel-art terminal:            *)
(*   - the client guard  generatePixelArt   (src/lib/retrodiffusion.ts)    *)
(*   - the server route  POST /api/generate (src/app/api/generate/route.ts)*)
(* Times are milliseconds, as Date.now() gives them.  Strings the code     *)
(* inspects character by character (prompts, request ids) are sequences of *)
(* one-character strings.                                                  *)
(***************************************************************************)
EXTENDS Integers, Sequences, FiniteSets, TLC

VARIABLES
    now,                      \* Date.now()
    isBrowser,                \* typeof window !== 'undefined'
    LAST_USER_INITIATED_CALL, \* module variable, 0 until a user call
    requestCache,             \* entries in Object.keys order
    lastRequestTime,          \* module variable
    pendingRequests,          \* the keys set to true
    apiRequestsThisSession,   \* module variable
    sessionStorage,           \* the two items the module keeps there
    calls,                    \* generatePixelArt calls suspended at an await
    ret,                      \* what the step just taken returned to its caller
    lastAccepted,             \* prompt of the call that last set lastRequestTime
    lastWait,                 \* waitTime of the last throttled call since then
    serverNow,                \* Date.now() of the server
    env,                      \* process.env of the server
    processedRequests,        \* the entries of the Map of route.ts
    requests,                 \* POST handlers suspended at an await
    resp,                     \* what the server's step just taken did for its request
    accepted,                 \* the requests that passed the duplicate check, in order
    arrived,                  \* the number of requests that have arrived
    rateLimitMap,             \* the entries of the Map of middleware.ts
    served,                   \* what the middleware's step just taken returned
    user,                     \* Terminal: useState<User | null>
    hasGeneratedImage,        \* Terminal: useState<boolean>
    loading,                  \* Terminal: useState<boolean>
    localStorage,             \* the user ids whose promixel_generated_ item is 'true'
    checkingUser,             \* checkUser() is suspended at supabase.auth.getUser()
    generating,               \* the handleGenerate suspended at generatePixelArt
    said,                     \* the entry the Terminal's step last added to history
    generated                 \* the user ids whose generate command has succeeded

clientVars == <<now, isBrowser, LAST_USER_INITIATED_CALL, requestCache,
                lastRequestTime, pendingRequests, apiRequestsThisSession,
                sessionStorage, calls, ret, lastAccepted, lastWait>>

serverVars == <<serverNow, env, processedRequests, requests, resp, accepted, arrived>>

middlewareVars == <<rateLimitMap, served>>

terminalVars == <<user, hasGeneratedImage, loading, localStorage, checkingUser,
                  generating, said, generated>>

vars == <<clientVars, serverVars, middlewareVars, terminalVars>>

-----------------------------------------------------------------------------
(* Program constants of the client guard *)

MIN_REQUEST_INTERVAL == 3000
MAX_REQUESTS_PER_SESSION == 50
CACHE_TTL == 1000 * 60 * 30
CACHE_CAPACITY == 20
AUTO_CALL_WINDOW == 5000

(* Bounds of the model *)

PageLoadTime == 100000   \* Date.now() when the module is loaded
MaxElapsed == 3000       \* the clock runs this long in steps of a second

-----------------------------------------------------------------------------
(* Strings *)

Whitespace == {" "}

ToLowerChar(c) ==
    CASE c = "A" -> "a"
      [] c = "B" -> "b"
      [] OTHER -> c

\* String.prototype.toLowerCase
ToLowerCase(s) == [i \in 1..Len(s) |-> ToLowerChar(s[i])]

RECURSIVE TrimStart(_)
TrimStart(s) ==
    IF s # <<>> /\ Head(s) \in Whitespace THEN TrimStart(Tail(s)) ELSE s

RECURSIVE TrimEnd(_)
TrimEnd(s) ==
    IF s # <<>> /\ s[Len(s)] \in Whitespace
    THEN TrimEnd(SubSeq(s, 1, Len(s) - 1))
    ELSE s

\* String.prototype.trim
Trim(s) == TrimEnd(TrimStart(s))

\* const normalizedPrompt = prompt.trim().toLowerCase()
NormalizePrompt(prompt) == ToLowerCase(Trim(prompt))

\* mutant: the check without the trim
IsEmptyPrompt_NoTrim(prompt) == prompt = <<>>

\* !prompt || prompt.trim() === ''
IsEmptyPrompt(prompt) == prompt = <<>> \/ Trim(prompt) = <<>>

-----------------------------------------------------------------------------
(* GenerationResult and the values the guard returns *)

Absent == "<absent>"

FALLBACK_IMAGE == "data:image/png;base64,<fallback>"

\* getPlaceholderImageForError(statusCode)
getPlaceholderImageForError(statusCode) ==
    IF statusCode = 429 THEN "data:image/png;base64,<placeholder 429>"
    ELSE IF statusCode = 401 \/ statusCode = 403
         THEN "data:image/png;base64,<placeholder 403>"
    ELSE IF statusCode = 422 THEN "data:image/png;base64,<placeholder 422>"
    ELSE FALLBACK_IMAGE

\* generatePlaceholderAsciiArt(prompt): the pattern picked by the prompt's length
generatePlaceholderAsciiArt(prompt) ==
    IF prompt = <<>> THEN "" ELSE
    CASE Len(prompt) % 4 = 0 -> "pattern 0"
      [] Len(prompt) % 4 = 1 -> "pattern 1"
      [] Len(prompt) % 4 = 2 -> "pattern 2"
      [] OTHER -> "pattern 3"

\* a field the object literal leaves out, for a prompt
AbsentPrompt == <<Absent>>

Result(imageUrl, message, success, prompt) ==
    [imageUrl |-> imageUrl, message |-> message, success |-> success,
     prompt |-> prompt, pixelArtAscii |-> Absent]

MSG_BLOCKED == "API call blocked: This appears to be an automatic call not triggered by user action. Please use the terminal to generate images."
MSG_NO_PROMPT == "Please provide a prompt to generate an image"
MSG_SESSION_LIMIT == "You have reached the maximum number of generations for this session. Please try again later."
MSG_IN_PROGRESS == "A generation with this prompt is already in progress. Please wait a moment."
MSG_CREDIT_LIMIT == "You have reached the API credit limit. Please try again later."
MSG_AUTH_FAILED == "API authorization failed. Please check your API key configuration."
MSG_VALIDATION == "API validation error: Your prompt might be too complex or contain invalid characters."
MSG_READ_FAILED == "Error: Failed to read API response"
MSG_FETCH_FAILED == "Error: Failed to fetch"
MSG_TYPE_ERROR == "Error: Cannot read properties of null (reading 'success')"

\* `Please wait ${waitTime} seconds before generating another image.`
WaitMessage(waitTime) ==
    CASE waitTime = 1 -> "Please wait 1 seconds before generating another image."
      [] waitTime = 2 -> "Please wait 2 seconds before generating another image."
      [] waitTime = 3 -> "Please wait 3 seconds before generating another image."
      [] OTHER -> "Please wait N seconds before generating another image."

WaitMessages == {WaitMessage(n) : n \in 0..3}

\* `Error: HTTP status ${response.status}`
StatusMessage(status) ==
    CASE status = 429 -> "Error: HTTP status 429"
      [] status = 500 -> "Error: HTTP status 500"
      [] OTHER -> "Error: HTTP status N"

\* Math.ceil(x / 1000) for an integer x
CeilSeconds(x) == IF x % 1000 = 0 THEN x \div 1000 ELSE (x \div 1000) + 1

Max(a, b) == IF a > b THEN a ELSE b

-----------------------------------------------------------------------------
(* The request cache: a sequence of entries in the order of Object.keys    *)
(* (insertion order; the prompts of the model hold no digits).             *)

CacheKeys == {requestCache[i].key : i \in 1..Len(requestCache)}

CacheIndex(cache, key) ==
    IF \E i \in 1..Len(cache) : cache[i].key = key
    THEN CHOOSE i \in 1..Len(cache) : cache[i].key = key
    ELSE 0

\* requestCache[key] = { result, timestamp }
CacheSet(cache, key, result, timestamp) ==
    LET e == [key |-> key, result |-> result, timestamp |-> timestamp]
        i == CacheIndex(cache, key)
    IN IF i = 0 THEN Append(cache, e) ELSE [cache EXCEPT ![i] = e]

\* cacheEntries.reduce((oldest, key) => ts[key] < ts[oldest] ? key : oldest, cacheEntries[0])
RECURSIVE ReduceOldest(_, _, _)
ReduceOldest(cache, i, oldest) ==
    IF i > Len(cache) THEN oldest
    ELSE ReduceOldest(cache, i + 1,
            IF cache[i].timestamp < cache[oldest].timestamp THEN i ELSE oldest)

\* mutant: the first key, the oldest by insertion
OldestIndex_FirstKey(cache) == 1

OldestIndex(cache) == ReduceOldest(cache, 1, 1)

RemoveAt(seq, i) == SubSeq(seq, 1, i - 1) \o SubSeq(seq, i + 1, Len(seq))

\* mutant: the threshold one too high
EvictOldest_LateThreshold(cache) ==
    IF Len(cache) > CACHE_CAPACITY + 1 THEN RemoveAt(cache, OldestIndex(cache)) ELSE cache

\* if (cacheEntries.length > 20) delete requestCache[oldestKey]
EvictOldest(cache) ==
    IF Len(cache) > CACHE_CAPACITY THEN RemoveAt(cache, OldestIndex(cache)) ELSE cache

\* mutant: a cache lifetime of 30 seconds
CacheHit_ShortTtl(cache, key, t) ==
    /\ CacheIndex(cache, key) # 0
    /\ t - cache[CacheIndex(cache, key)].timestamp < 1000 * 30

\* cachedResult && Date.now() - cachedResult.timestamp < 1000 * 60 * 30
CacheHit(cache, key, t) ==
    /\ CacheIndex(cache, key) # 0
    /\ t - cache[CacheIndex(cache, key)].timestamp < CACHE_TTL

-----------------------------------------------------------------------------
(* Inputs of the model *)

\* the prompts callers pass
Prompts == { <<>>, <<" ">>, <<"a">>, <<" ", "A">>, <<"b">> }

\* response.status of the answers to fetch('/api/generate')
Statuses == {200, 429}

ResponseOk(status) == status >= 200 /\ status <= 299

IMAGE_A == "data:image/png;base64,AAAA"

MSG_SERVER_ERROR == "An error occurred while processing your request"

\* what JSON.parse(text) gives
JsonBody(value) == [json |-> TRUE, null |-> FALSE, value |-> value, text |-> ""]
JsonNull == [json |-> TRUE, null |-> TRUE, value |-> Result("", Absent, FALSE, AbsentPrompt), text |-> ""]
TextBody(text) == [json |-> FALSE, null |-> FALSE, value |-> Result("", Absent, FALSE, AbsentPrompt), text |-> text]

\* the bodies response.text() resolves with
Bodies ==
    { JsonBody(Result(IMAGE_A, Absent, TRUE, AbsentPrompt)),
      JsonBody(Result("", Absent, TRUE, AbsentPrompt)),
      JsonBody(Result(Absent, MSG_SERVER_ERROR, FALSE, AbsentPrompt)),
      JsonNull,
      TextBody("Too Many Requests"),
      TextBody("rate limit exceeded"),
      TextBody("unauthorized"),
      TextBody("invalid request") }

\* text.includes(needle), for the texts of Bodies
Includes(text, needle) ==
    \/ text = "rate limit exceeded" /\ needle \in {"exceeded", "rate limit"}
    \/ text = "unauthorized" /\ needle = "unauthorized"
    \/ text = "invalid request" /\ needle = "invalid"

\* a value that is falsy in `x || y` and `x && y`
Falsy(x) == x = Absent \/ x = ""

-----------------------------------------------------------------------------
(* Return values as the caller sees them *)

NoResult == Result(Absent, Absent, FALSE, AbsentPrompt)

\* op: "none"     the step was no call and completed none
\*     "returned" generatePixelArt returned before any await
\*     "fetching" generatePixelArt issued fetch and is suspended
\*     "resolved" a suspended call returned
Ret(op, prompt, branch, result) ==
    [op |-> op, prompt |-> prompt, branch |-> branch, result |-> result]

NoReturn == Ret("none", AbsentPrompt, "", NoResult)

-----------------------------------------------------------------------------
(* The Terminal component: its state *)

\* useState<User | null>(null)
NoUser == [id |-> "", email |-> <<>>]

\* the closure of no handleGenerate
NotGenerating == [active |-> FALSE, user |-> NoUser, hasGeneratedImage |-> FALSE]

\* an entry of history
Entry(type, content) == [type |-> type, content |-> content]

NothingSaid == Entry("", "")

\* the Terminal after its first render, its effect of mount not yet resumed
TerminalMounted ==
    /\ user = NoUser
    /\ hasGeneratedImage = FALSE
    /\ loading = FALSE
    /\ localStorage = {}
    /\ checkingUser = TRUE
    /\ generating = NotGenerating
    /\ said = NothingSaid
    /\ generated = {}

-----------------------------------------------------------------------------
(* generatePixelArt, up to its first await *)

\* isAutomaticCall()
isAutomaticCall ==
    LET isWithin5SecondsOfPageLoad ==
            isBrowser /\ now - PageLoadTime < AUTO_CALL_WINDOW
        noUserInitiatedCallYet == LAST_USER_INITIATED_CALL = 0
    IN isWithin5SecondsOfPageLoad /\ noUserInitiatedCallYet

\* mutant: the ceiling compared with >
SessionLimitReached_OffByOne == apiRequestsThisSession > MAX_REQUESTS_PER_SESSION

\* apiRequestsThisSession >= MAX_REQUESTS_PER_SESSION
SessionLimitReached == apiRequestsThisSession >= MAX_REQUESTS_PER_SESSION

\* mutant: the pending check left out
IsPending_Unchecked(normalizedPrompt) == FALSE

\* pendingRequests[normalizedPrompt]
IsPending(normalizedPrompt) == normalizedPrompt \in pendingRequests

\* parseInt(sessionStorage.getItem('last_api_request_time'), 10), 0 without it
lastStoredRequestTime ==
    IF isBrowser THEN sessionStorage.last_api_request_time ELSE 0

\* Math.max(lastRequestTime, lastStoredRequestTime)
effectiveLastRequestTime == Max(lastRequestTime, lastStoredRequestTime)

\* mutant: a minimum interval of 2 seconds
Throttled_TwoSeconds == now - effectiveLastRequestTime < 2000

\* now - effectiveLastRequestTime < MIN_REQUEST_INTERVAL
Throttled == now - effectiveLastRequestTime < MIN_REQUEST_INTERVAL

\* Math.ceil((MIN_REQUEST_INTERVAL - (now - effectiveLastRequestTime)) / 1000)
waitTime == CeilSeconds(MIN_REQUEST_INTERVAL - (now - effectiveLastRequestTime))

\* the branch generatePixelArt(prompt) takes once it is past the check for
\* automatic calls, and what it returns there
GuardOfUserCall(prompt) ==
    LET normalizedPrompt == NormalizePrompt(prompt) IN
    IF IsEmptyPrompt(prompt)
    THEN [branch |-> "empty",
          result |-> Result("", MSG_NO_PROMPT, FALSE, AbsentPrompt)]
    ELSE IF SessionLimitReached
    THEN [branch |-> "session",
          result |-> Result(getPlaceholderImageForError(429), MSG_SESSION_LIMIT,
                            FALSE, AbsentPrompt)]
    ELSE IF CacheHit(requestCache, normalizedPrompt, now)
    THEN [branch |-> "cache",
          result |-> requestCache[CacheIndex(requestCache, normalizedPrompt)].result]
    ELSE IF IsPending(normalizedPrompt)
    THEN [branch |-> "pending",
          result |-> Result("", MSG_IN_PROGRESS, FALSE, AbsentPrompt)]
    ELSE IF Throttled
    THEN [branch |-> "cooldown",
          result |-> Result("", WaitMessage(waitTime), FALSE, AbsentPrompt)]
    ELSE [branch |-> "fetch", result |-> NoResult]

\* the branch generatePixelArt(prompt) takes, and what it returns there
Guard(prompt) ==
    IF isAutomaticCall
    THEN [branch |-> "blocked",
          result |-> Result(FALLBACK_IMAGE, MSG_BLOCKED, FALSE, prompt)]
    ELSE GuardOfUserCall(prompt)

\* sessionStorage.setItem('last_api_request_time', t), when there is a window
StoreRequestTime(storage, t) ==
    IF isBrowser THEN [storage EXCEPT !.last_api_request_time = t] ELSE storage

\* export const markUserAction
markUserAction ==
    /\ LAST_USER_INITIATED_CALL' = now
    /\ ret' = NoReturn
    /\ UNCHANGED <<now, isBrowser, requestCache, lastRequestTime, pendingRequests,
                   apiRequestsThisSession, sessionStorage, calls, lastAccepted,
                   lastWait>>

\* mutant: the time of a throttled call is taken as that of a request
LastRequestTimeAfter_EveryCall(branch) ==
    IF branch \in {"fetch", "cooldown"} THEN now ELSE lastRequestTime

\* lastRequestTime = now, on the way to fetch only
LastRequestTimeAfter(branch) == IF branch = "fetch" THEN now ELSE lastRequestTime

\* generatePixelArt(prompt) taking the branch g, from the call to the return or
\* to the await of fetch
generatePixelArtTaking(prompt, g) ==
    LET normalizedPrompt == NormalizePrompt(prompt)
    IN
    /\ LAST_USER_INITIATED_CALL' =
          IF g.branch = "blocked" THEN LAST_USER_INITIATED_CALL ELSE now
    /\ IF g.branch = "fetch"
       THEN /\ pendingRequests' = pendingRequests \cup {normalizedPrompt}
            /\ lastRequestTime' = LastRequestTimeAfter(g.branch)
            /\ sessionStorage' = StoreRequestTime(sessionStorage, now)
            /\ calls' = Append(calls, [prompt |-> prompt,
                                       normalizedPrompt |-> normalizedPrompt,
                                       stage |-> "fetch", status |-> 0])
            /\ ret' = Ret("fetching", prompt, g.branch, NoResult)
            /\ lastAccepted' = prompt
            /\ lastWait' = 0
       ELSE /\ ret' = Ret("returned", prompt, g.branch, g.result)
            /\ lastWait' = IF g.branch = "cooldown" THEN waitTime ELSE lastWait
            /\ lastRequestTime' = LastRequestTimeAfter(g.branch)
            /\ UNCHANGED <<pendingRequests, sessionStorage, calls, lastAccepted>>
    /\ UNCHANGED <<now, isBrowser, requestCache, apiRequestsThisSession>>

\* export const generatePixelArt: from the call to the return or to the await
\* of fetch
generatePixelArt(prompt) == generatePixelArtTaking(prompt, Guard(prompt))

-----------------------------------------------------------------------------
(* generatePixelArt, after its awaits *)

\* the error result of the outer catch
CaughtResult(message, prompt) == Result(FALLBACK_IMAGE, message, FALSE, prompt)

\* delete pendingRequests[normalizedPrompt]
ClearPending(pending, normalizedPrompt) == pending \ {normalizedPrompt}

\* `await fetch(...)` resolves with a response of the given status:
\* trackApiRequest(), then the call waits for response.text()
FetchResolves(i, status) ==
    /\ i \in 1..Len(calls)
    /\ calls[i].stage = "fetch"
    /\ calls' = [calls EXCEPT ![i].stage = "text", ![i].status = status]
    /\ apiRequestsThisSession' = apiRequestsThisSession + 1
    /\ sessionStorage' =
          IF isBrowser
          THEN [api_request_count |-> apiRequestsThisSession + 1,
                last_api_request_time |-> now]
          ELSE sessionStorage
    /\ ret' = NoReturn
    /\ UNCHANGED <<now, isBrowser, LAST_USER_INITIATED_CALL, requestCache,
                   lastRequestTime, pendingRequests, lastAccepted, lastWait>>

\* `await fetch(...)` rejects (network failure): inner catch, then outer catch
FetchRejects(i) ==
    /\ i \in 1..Len(calls)
    /\ calls[i].stage = "fetch"
    /\ calls' = RemoveAt(calls, i)
    /\ pendingRequests' = ClearPending(pendingRequests, calls[i].normalizedPrompt)
    /\ ret' = Ret("resolved", calls[i].prompt, "fetch-rejected",
                  CaughtResult(MSG_FETCH_FAILED, calls[i].prompt))
    /\ UNCHANGED <<now, isBrowser, LAST_USER_INITIATED_CALL, requestCache,
                   lastRequestTime, apiRequestsThisSession, sessionStorage,
                   lastAccepted, lastWait>>

\* `await response.text()` rejects: 'Failed to read API response' is thrown
TextRejects(i) ==
    /\ i \in 1..Len(calls)
    /\ calls[i].stage = "text"
    /\ calls' = RemoveAt(calls, i)
    /\ pendingRequests' = ClearPending(pendingRequests, calls[i].normalizedPrompt)
    /\ ret' = Ret("resolved", calls[i].prompt, "read-failed",
                  CaughtResult(MSG_READ_FAILED, calls[i].prompt))
    /\ UNCHANGED <<now, isBrowser, LAST_USER_INITIATED_CALL, requestCache,
                   lastRequestTime, apiRequestsThisSession, sessionStorage,
                   lastAccepted, lastWait>>

\* the rest of generatePixelArt once response.text() has resolved with body:
\* [branch, result, clear (is the pending flag deleted), cache (is the result cached)]
Completion(call, body) ==
    LET prompt == call.prompt
        result == body.value
        finalResult == [result EXCEPT !.pixelArtAscii = generatePlaceholderAsciiArt(prompt)]
    IN
    IF ~body.json
    THEN IF \/ Includes(body.text, "credit limit")
            \/ Includes(body.text, "exceeded")
            \/ Includes(body.text, "rate limit")
         THEN [branch |-> "text-credit", clear |-> FALSE, cache |-> FALSE,
               result |-> Result(getPlaceholderImageForError(429), MSG_CREDIT_LIMIT,
                                 FALSE, prompt)]
         ELSE IF \/ Includes(body.text, "unauthorized")
                 \/ Includes(body.text, "authentication")
                 \/ Includes(body.text, "forbidden")
         THEN [branch |-> "text-auth", clear |-> FALSE, cache |-> FALSE,
               result |-> Result(getPlaceholderImageForError(403), MSG_AUTH_FAILED,
                                 FALSE, prompt)]
         ELSE IF \/ Includes(body.text, "validation")
                 \/ Includes(body.text, "invalid")
                 \/ Includes(body.text, "unprocessable")
         THEN [branch |-> "text-validation", clear |-> FALSE, cache |-> FALSE,
               result |-> Result(getPlaceholderImageForError(422), MSG_VALIDATION,
                                 FALSE, prompt)]
         ELSE [branch |-> "text-unparsable", clear |-> TRUE, cache |-> FALSE,
               result |-> CaughtResult(MSG_READ_FAILED, prompt)]
    ELSE IF ~ResponseOk(call.status)
    THEN [branch |-> "http-error", clear |-> TRUE, cache |-> FALSE,
          result |-> Result(getPlaceholderImageForError(call.status),
                            IF body.null \/ Falsy(result.message)
                            THEN StatusMessage(call.status) ELSE result.message,
                            FALSE, prompt)]
    ELSE IF body.null
    THEN [branch |-> "type-error", clear |-> TRUE, cache |-> FALSE,
          result |-> CaughtResult(MSG_TYPE_ERROR, prompt)]
    ELSE [branch |-> "ok", clear |-> TRUE,
          cache |-> result.success /\ ~Falsy(result.imageUrl),
          result |-> finalResult]

\* `await response.text()` resolves with body
TextResolves(i, body) ==
    /\ i \in 1..Len(calls)
    /\ calls[i].stage = "text"
    /\ LET call == calls[i]
           c == Completion(call, body)
       IN /\ requestCache' =
                IF c.cache
                THEN EvictOldest(CacheSet(requestCache, call.normalizedPrompt,
                                          c.result, now))
                ELSE requestCache
          /\ pendingRequests' =
                IF c.clear THEN ClearPending(pendingRequests, call.normalizedPrompt)
                ELSE pendingRequests
          /\ ret' = Ret("resolved", call.prompt, c.branch, c.result)
    /\ calls' = RemoveAt(calls, i)
    /\ UNCHANGED <<now, isBrowser, LAST_USER_INITIATED_CALL, lastRequestTime,
                   apiRequestsThisSession, sessionStorage, lastAccepted, lastWait>>

-----------------------------------------------------------------------------
(* Time *)

\* one long wait takes the clock to a second before a cache entry's expiry
BigStep == CACHE_TTL - 1000

\* the clock advances by d
Tick(d) ==
    /\ now' = now + d
    /\ ret' = NoReturn
    /\ UNCHANGED <<isBrowser, LAST_USER_INITIATED_CALL, requestCache, lastRequestTime,
                   pendingRequests, apiRequestsThisSession, sessionStorage, calls,
                   lastAccepted, lastWait>>

\* the clock runs by seconds for MaxElapsed, and once by BigStep
TickAllowed(d) ==
    LET elapsed == now - PageLoadTime IN
    IF d = BigStep
    THEN elapsed < BigStep
    ELSE (elapsed % BigStep) + d <= MaxElapsed

TickSteps == {1000, BigStep}

-----------------------------------------------------------------------------
(* The server route POST /api/generate: its pure functions *)

MAX_PROMPT_LENGTH == 1000
DUPLICATE_REQUEST_WINDOW == 10 * 1000

\* the character of code 96
Backtick == "<backtick>"

\* the printable ASCII characters, in the order of their codes from 32 on
AsciiChars ==
    <<" ", "!", "\"", "#", "$", "%", "&", "'", "(", ")", "*", "+", ",", "-", ".", "/",
      "0", "1", "2", "3", "4", "5", "6", "7", "8", "9", ":", ";", "<", "=", ">", "?",
      "@", "A", "B", "C", "D", "E", "F", "G", "H", "I", "J", "K", "L", "M", "N", "O",
      "P", "Q", "R", "S", "T", "U", "V", "W", "X", "Y", "Z", "[", "\\", "]", "^", "_",
      Backtick, "a", "b", "c", "d", "e", "f", "g", "h", "i", "j", "k", "l", "m", "n", "o",
      "p", "q", "r", "s", "t", "u", "v", "w", "x", "y", "z", "{", "|", "}", "~">>

\* the code of every character of the table
CharCodes ==
    [c \in {AsciiChars[i] : i \in 1..Len(AsciiChars)} |->
        31 + (CHOOSE i \in 1..Len(AsciiChars) : AsciiChars[i] = c)]

\* String.prototype.charCodeAt, for one character
charCodeAt(c) == CharCodes[c]

\* the comparison of a regular expression with the i flag
FoldCase(c) ==
    LET code == charCodeAt(c)
    IN IF code >= 65 /\ code <= 90 THEN AsciiChars[code + 32 - 31] ELSE c

\* a JSON string, or the undefined of a field that is not there
JsonString(text) == [defined |-> TRUE, text |-> text]
Undefined == [defined |-> FALSE, text |-> <<>>]

\* `${prompt}`
TemplateString(prompt) ==
    IF prompt.defined THEN prompt.text
    ELSE <<"u", "n", "d", "e", "f", "i", "n", "e", "d">>

\* a 32-bit word is kept as two halves of 16 bits
HalfWord == 65536

\* hash = ((hash << 5) - hash) + char; hash = hash & hash
HashStep(hash, char) ==
    LET lo == hash.lo * 31 + char
        hi == hash.hi * 31 + (lo \div HalfWord)
    IN [hi |-> hi % HalfWord, lo |-> lo % HalfWord]

\* the signed value of the word
ToInt32(hash) ==
    IF hash.hi >= HalfWord \div 2
    THEN (hash.hi - HalfWord) * HalfWord + hash.lo
    ELSE hash.hi * HalfWord + hash.lo

\* the loop over the characters first to last of str, the range is halved
\* so that long texts need no deep recursion
RECURSIVE HashLoop(_, _, _, _)
HashLoop(str, first, last, hash) ==
    IF first > last THEN hash
    ELSE IF first = last THEN HashStep(hash, charCodeAt(str[first]))
    ELSE LET middle == (first + last) \div 2
             left == HashLoop(str, first, middle, hash)
         IN \* the left half is computed before the right half starts
            IF left.lo >= 0 THEN HashLoop(str, middle + 1, last, left) ELSE left

\* the key is the decimal text of the signed value, which names the value
createRequestHash(requestId, prompt) ==
    LET str == requestId \o <<":">> \o TemplateString(prompt)
    IN ToInt32(HashLoop(str, 1, Len(str), [hi |-> 0, lo |-> 0]))

\* the pattern matches the text at position i, whatever the case of letters
MatchesAt(text, i, pattern) ==
    /\ i + Len(pattern) - 1 <= Len(text)
    /\ \A k \in 1..Len(pattern) : FoldCase(text[i + k - 1]) = FoldCase(pattern[k])

\* RegExp.prototype.test for a pattern that is a literal text
Test(pattern, text) == \E i \in 1..Len(text) : MatchesAt(text, i, pattern)

PatternJavascript == <<"j", "a", "v", "a", "s", "c", "r", "i", "p", "t", ":">>
PatternOnerror == <<"o", "n", "e", "r", "r", "o", "r", "=">>
PatternOnload == <<"o", "n", "l", "o", "a", "d", "=">>

suspiciousPatterns ==
    { <<"<", "s", "c", "r", "i", "p", "t">>,
      PatternJavascript,
      PatternOnerror,
      PatternOnload,
      <<"e", "v", "a", "l", "(">>,
      <<"d", "o", "c", "u", "m", "e", "n", "t", ".", "c", "o", "o", "k", "i", "e">>,
      <<"$", "{">> }

Valid == [valid |-> TRUE, error |-> Absent]
Invalid(error) == [valid |-> FALSE, error |-> error]

\* validation without the limit of the length
validateRequest_NoLengthLimit(prompt) ==
    IF ~prompt.defined \/ prompt.text = <<>>
    THEN Invalid("Missing prompt")
    ELSE IF \E pattern \in suspiciousPatterns : Test(pattern, prompt.text)
    THEN Invalid("Prompt contains potentially malicious content")
    ELSE Valid

validateRequest(prompt) ==
    IF ~prompt.defined \/ prompt.text = <<>>
    THEN Invalid("Missing prompt")
    ELSE IF Len(prompt.text) > MAX_PROMPT_LENGTH
    THEN Invalid("Prompt exceeds maximum allowed length")
    ELSE IF \E pattern \in suspiciousPatterns : Test(pattern, prompt.text)
    THEN Invalid("Prompt contains potentially malicious content")
    ELSE Valid

\* the length of the match of /<[^>]*>|javascript:|onerror=|onload=/i at the
\* head of a text that is not empty, 0 if there is none
TagMatch(text) ==
    LET closing == {j \in 2..Len(text) : text[j] = ">"}
    IN IF text[1] = "<" /\ closing # {}
       THEN CHOOSE j \in closing : \A k \in closing : j <= k
       ELSE IF MatchesAt(text, 1, PatternJavascript) THEN Len(PatternJavascript)
       ELSE IF MatchesAt(text, 1, PatternOnerror) THEN Len(PatternOnerror)
       ELSE IF MatchesAt(text, 1, PatternOnload) THEN Len(PatternOnload)
       ELSE 0

\* one position of the scan of replace: a position inside the last match is
\* passed over, a match is left out, any other character is kept
ReplaceStep(text, i, scan) ==
    IF i < scan.next THEN scan
    ELSE LET n == TagMatch(SubSeq(text, i, Len(text)))
         IN IF n > 0
            THEN [next |-> i + n, kept |-> scan.kept]
            ELSE [next |-> i + 1, kept |-> Append(scan.kept, text[i])]

\* the scan over the positions first to last, the range is halved so that
\* long texts need no deep recursion
RECURSIVE ReplaceLoop(_, _, _, _)
ReplaceLoop(text, first, last, scan) ==
    IF first > last THEN scan
    ELSE IF first = last THEN ReplaceStep(text, first, scan)
    ELSE LET middle == (first + last) \div 2
             left == ReplaceLoop(text, first, middle, scan)
         IN \* the left half is computed before the right half starts
            IF left.next >= 0 THEN ReplaceLoop(text, middle + 1, last, left) ELSE left

\* prompt.replace(/<[^>]*>|javascript:|onerror=|onload=/gi, '')
RemoveTags(text) == ReplaceLoop(text, 1, Len(text), [next |-> 1, kept |-> <<>>]).kept

\* sanitized.replace: the quotes, the semicolon and the backtick are removed
RemoveQuotes(text) == SelectSeq(text, LAMBDA c : c \notin {"'", "\"", ";", Backtick})

sanitizePrompt(prompt) ==
    IF ~prompt.defined \/ prompt.text = <<>> THEN <<>>
    ELSE LET sanitized == Trim(RemoveQuotes(RemoveTags(prompt.text)))
         IN SubSeq(sanitized, 1, IF Len(sanitized) < MAX_PROMPT_LENGTH
                                 THEN Len(sanitized) ELSE MAX_PROMPT_LENGTH)

\* the keys the environment may hold, and what cleanApiKey makes of them
cleanApiKey(apiKey) ==
    CASE apiKey = "" -> ""
      [] apiKey = " rdpk-key " -> "rdpk-key"
      [] apiKey = "key=rdpk-key" -> "rdpk-key"
      [] OTHER -> apiKey

\* the entries of the Map processedRequests, one for a key
MapHas(map, key) == \E entry \in map : entry.key = key
MapGet(map, key) == (CHOOSE entry \in map : entry.key = key).timestamp
MapSet(map, key, timestamp) ==
    {entry \in map : entry.key # key} \cup {[key |-> key, timestamp |-> timestamp]}

cleanupProcessedRequests(map, t) ==
    {entry \in map : ~(t - entry.timestamp > DUPLICATE_REQUEST_WINDOW)}

\* the duplicate check with a window of five seconds
IsDuplicate_FiveSeconds(map, requestHash, t) ==
    /\ MapHas(map, requestHash)
    /\ MapGet(map, requestHash) # 0
    /\ t - MapGet(map, requestHash) < 5 * 1000

\* the duplicate check with a window that includes its last millisecond
IsDuplicate_Inclusive(map, requestHash, t) ==
    /\ MapHas(map, requestHash)
    /\ MapGet(map, requestHash) # 0
    /\ t - MapGet(map, requestHash) <= DUPLICATE_REQUEST_WINDOW

\* the duplicate check of POST
IsDuplicate(map, requestHash, t) ==
    /\ MapHas(map, requestHash)
    /\ MapGet(map, requestHash) # 0
    /\ t - MapGet(map, requestHash) < DUPLICATE_REQUEST_WINDOW

allowedOrigins(environment) ==
    { "https://your-domain.com", "https://www.your-domain.com",
      environment.NEXT_PUBLIC_SITE_URL, "http://localhost:3000" }

isAllowedOrigin(origin, environment) ==
    \/ origin = ""
    \/ \E allowed \in allowedOrigins(environment) : origin = allowed \/ allowed = "*"

\* crypto.randomUUID(): a text no other request carries
randomUUID(n) == <<"u", AsciiChars[charCodeAt("0") - 31 + n]>>

(* Responses *)

SecurityHeaders ==
    { "Content-Security-Policy", "X-Content-Type-Options", "X-Frame-Options",
      "X-XSS-Protection", "Referrer-Policy", "Permissions-Policy" }

NoImage == <<>>
NoCredits == 0 - 1

\* the image without the prefix of a data URL
DataUrl_NoPrefix(base64) == <<base64>>

\* `data:image/png;base64,${data.base64_images[0]}`
DataUrl(base64) == <<"data:image/png;base64,", base64>>

\* NextResponse.json({ success: false, message }, { status })
Failure(status, message) ==
    [status |-> status, success |-> FALSE, message |-> message, imageUrl |-> NoImage,
     prompt |-> AbsentPrompt, remainingCredits |-> NoCredits, headers |-> {}]

MSG_DUPLICATE == "Duplicate request detected. Please wait before retrying."
MSG_NOT_CONFIGURED == "API key not configured on server. Please contact support."
MSG_INVALID_RESPONSE == "Invalid response from the API"

\* the response of the outer catch
InternalError == Failure(500, MSG_SERVER_ERROR)

\* `API error: ${response.status}`
ApiErrorMessage(status) ==
    CASE status = 500 -> "API error: 500"
      [] status = 503 -> "API error: 503"
      [] OTHER -> "API error"

\* what the handler did in the step just taken
Answer(op, stage, requestId, prompt, response) ==
    [op |-> op, stage |-> stage, requestId |-> requestId, prompt |-> prompt,
     response |-> response]

NoResponse == Failure(0, Absent)
NoAnswer == Answer("none", "", <<>>, Undefined, NoResponse)

\* the check of the key passes every value
MissingKey_Never(apiKey) == FALSE

\* !apiKey, for a variable of the environment that is not set or empty
MissingKey(apiKey) == apiKey = ""

\* POST from request.json() to the call of fetch
HandleBody(request, body, map, t, environment) ==
    LET prompt == body.prompt
        requestHash == createRequestHash(request.requestId, prompt)
        validation == validateRequest(prompt)
        apiKey == environment.RETRODIFFUSION_API_KEY
    IN
    IF ~body.parses
    THEN [branch |-> "format", recorded |-> FALSE,
          response |-> Failure(400, "Invalid request format")]
    ELSE IF body.null
    THEN [branch |-> "type-error", recorded |-> FALSE, response |-> InternalError]
    ELSE IF IsDuplicate(map, requestHash, t)
    THEN [branch |-> "duplicate", recorded |-> FALSE,
          response |-> Failure(429, MSG_DUPLICATE)]
    ELSE IF ~validation.valid
    THEN [branch |-> "invalid", recorded |-> TRUE,
          response |-> Failure(400, validation.error)]
    ELSE IF MissingKey(apiKey)
    THEN [branch |-> "no-key", recorded |-> TRUE,
          response |-> Failure(500, MSG_NOT_CONFIGURED)]
    ELSE [branch |-> "fetch", recorded |-> TRUE, response |-> NoResponse]

\* POST after the call of fetch
HandleUpstream(request, outcome) ==
    LET status == outcome.status
        data == outcome.body
    IN
    IF outcome.rejects THEN InternalError
    ELSE IF ~ResponseOk(status)
    THEN IF ~data.readable THEN InternalError
         ELSE IF status = 429
         THEN Failure(429, "Credit limit reached. Try again later or upgrade your plan.")
         ELSE IF status = 403
         THEN Failure(403, "Authentication failed. Please verify your API key is valid and active.")
         ELSE IF status = 401
         THEN Failure(401, "Invalid API key. Please check your configuration.")
         ELSE Failure(status, ApiErrorMessage(status))
    ELSE IF ~data.readable \/ ~data.parses
    THEN Failure(500, MSG_INVALID_RESPONSE)
    ELSE IF data.null \/ ~data.hasImages \/ data.base64_images = <<>>
              \/ data.base64_images[1] = ""
    THEN Failure(500, MSG_INVALID_RESPONSE)
    ELSE [status |-> 200, success |-> TRUE, message |-> Absent,
          imageUrl |-> DataUrl(data.base64_images[1]),
          prompt |-> request.sanitizedPrompt,
          remainingCredits |-> data.remaining_credits,
          headers |-> SecurityHeaders]

-----------------------------------------------------------------------------
(* The server route POST /api/generate: its steps *)

MaxServerRequests == 2     \* the requests that arrive in a behaviour
ServerStartTime == 500000  \* Date.now() of the server when the first arrives
MaxServerElapsed == 15000  \* the server's clock runs this long

\* POST up to await request.json(): what it does to the state of the route
RouteReceives(origin, requestIdHeader, cleanup) ==
    /\ arrived' = arrived + 1
    /\ processedRequests' =
          IF cleanup THEN cleanupProcessedRequests(processedRequests, serverNow)
          ELSE processedRequests
    /\ LET requestId == IF requestIdHeader = <<>> THEN randomUUID(arrived + 1)
                        ELSE requestIdHeader
       IN
       IF ~isAllowedOrigin(origin, env)
       THEN /\ resp' = Answer("responded", "origin", requestId, Undefined,
                              Failure(403, "Unauthorized"))
            /\ UNCHANGED requests
       ELSE /\ resp' = Answer("reading", "origin", requestId, Undefined, NoResponse)
            /\ requests' = Append(requests,
                  [requestId |-> requestId, stage |-> "json", prompt |-> Undefined,
                   sanitizedPrompt |-> <<>>, token |-> ""])
    /\ UNCHANGED <<serverNow, env, accepted>>

\* POST up to await request.json()
ReceiveRequest(origin, requestIdHeader, cleanup) ==
    /\ RouteReceives(origin, requestIdHeader, cleanup)
    /\ UNCHANGED <<clientVars, middlewareVars, terminalVars>>

\* POST up to await request.json(), for the requests the bound allows
Receive(origin, requestIdHeader, cleanup) ==
    /\ arrived < MaxServerRequests
    /\ ReceiveRequest(origin, requestIdHeader, cleanup)

\* request.json() settles, and POST runs to the call of fetch
BodyArrives(i, body) ==
    /\ requests[i].stage = "json"
    /\ LET request == requests[i]
           handled == HandleBody(request, body, processedRequests, serverNow, env)
           prompt == IF body.parses /\ ~body.null THEN body.prompt ELSE Undefined
       IN
       /\ processedRequests' =
             IF handled.recorded
             THEN MapSet(processedRequests,
                         createRequestHash(request.requestId, prompt), serverNow)
             ELSE processedRequests
       /\ accepted' =
             IF handled.recorded
             THEN Append(accepted, [requestId |-> request.requestId, prompt |-> prompt,
                                  at |-> serverNow,
                                  upstream |-> handled.branch = "fetch"])
             ELSE accepted
       /\ IF handled.branch = "fetch"
          THEN /\ requests' = [requests EXCEPT ![i] =
                     [requestId |-> request.requestId, stage |-> "fetch",
                      prompt |-> prompt,
                      sanitizedPrompt |-> sanitizePrompt(prompt),
                      token |-> cleanApiKey(env.RETRODIFFUSION_API_KEY)]]
               /\ resp' = Answer("fetching", handled.branch, request.requestId,
                                 prompt, NoResponse)
          ELSE /\ requests' = RemoveAt(requests, i)
               /\ resp' = Answer("responded", handled.branch, request.requestId,
                                 prompt, handled.response)
    /\ UNCHANGED <<serverNow, env, arrived>>
    /\ UNCHANGED <<clientVars, middlewareVars, terminalVars>>

\* the upstream call settles, with the body of its response
UpstreamSettles(i, outcome) ==
    /\ requests[i].stage = "fetch"
    /\ resp' = Answer("responded", "upstream", requests[i].requestId,
                      requests[i].prompt, HandleUpstream(requests[i], outcome))
    /\ requests' = RemoveAt(requests, i)
    /\ UNCHANGED <<serverNow, env, processedRequests, accepted, arrived>>
    /\ UNCHANGED <<clientVars, middlewareVars, terminalVars>>

\* setInterval(cleanupProcessedRequests, 5 * 60 * 1000)
CleanupTimer ==
    /\ processedRequests' = cleanupProcessedRequests(processedRequests, serverNow)
    /\ resp' = NoAnswer
    /\ UNCHANGED <<serverNow, env, requests, accepted, arrived>>
    /\ UNCHANGED <<clientVars, middlewareVars, terminalVars>>

\* the server's clock advances by d
ServerTick(d) ==
    /\ serverNow + d <= ServerStartTime + MaxServerElapsed
    /\ serverNow' = serverNow + d
    /\ resp' = NoAnswer
    /\ UNCHANGED <<env, processedRequests, requests, accepted, arrived>>
    /\ UNCHANGED <<clientVars, middlewareVars, terminalVars>>

\* what a step that returns nothing leaves in served
NothingServed ==
    [op |-> "none", path |-> "", clientIp |-> "", origin |-> "", status |-> 0,
     body |-> "", headers |-> {}, found |-> [count |-> 0, timestamp |-> 0],
     counted |-> 0]

\* the middleware when the module has been loaded
MiddlewareIdle ==
    /\ rateLimitMap = {}
    /\ served = NothingServed

\* the server when no request has arrived
ServerIdle(environment) ==
    /\ MiddlewareIdle
    /\ serverNow = ServerStartTime
    /\ env = environment
    /\ processedRequests = {}
    /\ requests = <<>>
    /\ resp = NoAnswer
    /\ accepted = <<>>
    /\ arrived = 0

Environment(apiKey, siteUrl) ==
    [RETRODIFFUSION_API_KEY |-> apiKey, NEXT_PUBLIC_SITE_URL |-> siteUrl]

-----------------------------------------------------------------------------
(* The client session *)

\* the counts a reload finds in sessionStorage ('api_request_count')
SavedCounts == {0, MAX_REQUESTS_PER_SESSION - 1, MAX_REQUESTS_PER_SESSION}

\* the module's top-level code, run when the page loads it
Init ==
    /\ TerminalMounted
    /\ now = PageLoadTime
    /\ isBrowser \in BOOLEAN
    /\ LAST_USER_INITIATED_CALL = 0
    /\ requestCache = <<>>
    /\ lastRequestTime = 0
    /\ pendingRequests = {}
    /\ \E savedCount \in SavedCounts, savedTime \in {0, PageLoadTime - 1000} :
          \* trackApiRequest stores the count together with a time
          /\ savedCount > 0 => savedTime > 0
          /\ sessionStorage =
                IF isBrowser
                THEN [api_request_count |-> savedCount,
                      last_api_request_time |-> savedTime]
                ELSE [api_request_count |-> 0, last_api_request_time |-> 0]
          /\ apiRequestsThisSession = sessionStorage.api_request_count
    /\ calls = <<>>
    /\ ret = NoReturn
    /\ lastAccepted = AbsentPrompt
    /\ lastWait = 0
    /\ ServerIdle(Environment("rdpk-key", ""))

Next ==
    \/ \E prompt \in Prompts : generatePixelArt(prompt) /\ UNCHANGED <<serverVars, middlewareVars, terminalVars>>
    \/ markUserAction /\ UNCHANGED <<serverVars, middlewareVars, terminalVars>>
    \/ \E i \in 1..Len(calls), status \in Statuses :
          FetchResolves(i, status) /\ UNCHANGED <<serverVars, middlewareVars, terminalVars>>
    \/ \E i \in 1..Len(calls) : FetchRejects(i) /\ UNCHANGED <<serverVars, middlewareVars, terminalVars>>
    \/ \E i \in 1..Len(calls), body \in Bodies :
          TextResolves(i, body) /\ UNCHANGED <<serverVars, middlewareVars, terminalVars>>
    \/ \E i \in 1..Len(calls) : TextRejects(i) /\ UNCHANGED <<serverVars, middlewareVars, terminalVars>>
    \/ \E d \in TickSteps : TickAllowed(d) /\ Tick(d) /\ UNCHANGED <<serverVars, middlewareVars, terminalVars>>

Spec == Init /\ [][Next]_vars

-----------------------------------------------------------------------------
(* The client session that fills the cache: one prompt after the other, each *)
(* answered with an image before the next is sent, until one place is left;  *)
(* from then on calls overlap, fail, and the clock may make its long step.   *)

MaxCacheCalls == 2       \* calls in flight at the same time, once the cache is filled
MaxFreeElapsed == 3000   \* the clock runs this long after the cache is filled

\* one-letter prompts
CacheLetters == <<"a", "b", "c", "d", "e", "f", "g", "h", "i", "j", "k", "l",
                  "m", "n", "o", "p", "q", "r", "s", "t", "u", "v", "w", "x">>

FillPhase == Len(requestCache) < CACHE_CAPACITY - 1

\* the first letter that is neither cached nor pending
FreshPrompts ==
    LET free == {i \in 1..Len(CacheLetters) :
                    /\ <<CacheLetters[i]>> \notin CacheKeys
                    /\ <<CacheLetters[i]>> \notin pendingRequests}
    IN {<<CacheLetters[i]>> : i \in {j \in free : \A k \in free : j <= k}}

\* the prompts of the first and the last entry of the cache
CachedPrompts ==
    {requestCache[i].key : i \in {1, Len(requestCache)} \cap 1..Len(requestCache)}

CachePrompts == FreshPrompts \cup CachedPrompts

CacheTickAllowed(d) ==
    LET elapsed == now - PageLoadTime
        horizon == MIN_REQUEST_INTERVAL * (CACHE_CAPACITY - 1) + MaxFreeElapsed
    IN
    /\ FillPhase => calls = <<>> /\ Throttled
    /\ IF d = BigStep
       THEN ~FillPhase /\ elapsed < BigStep
       ELSE (elapsed % BigStep) + d <= horizon

\* the client after a first load of the page in a browser
FreshClient ==
    /\ TerminalMounted
    /\ now = PageLoadTime
    /\ isBrowser = TRUE
    /\ LAST_USER_INITIATED_CALL = 0
    /\ requestCache = <<>>
    /\ lastRequestTime = 0
    /\ pendingRequests = {}
    /\ sessionStorage = [api_request_count |-> 0, last_api_request_time |-> 0]
    /\ apiRequestsThisSession = 0
    /\ calls = <<>>
    /\ ret = NoReturn
    /\ lastAccepted = AbsentPrompt
    /\ lastWait = 0

InitCache == FreshClient /\ ServerIdle(Environment("rdpk-key", ""))

\* the answers of the server in this session: an image, or its error body
CacheBodies ==
    { JsonBody(Result(IMAGE_A, Absent, TRUE, AbsentPrompt)),
      JsonBody(Result(Absent, MSG_SERVER_ERROR, FALSE, AbsentPrompt)) }

NextCache ==
    \/ \E prompt \in CachePrompts :
          /\ Len(calls) < (IF FillPhase THEN 1 ELSE MaxCacheCalls)
          /\ generatePixelArt(prompt)
          /\ UNCHANGED <<serverVars, middlewareVars, terminalVars>>
    \/ LAST_USER_INITIATED_CALL = 0 /\ markUserAction /\ UNCHANGED <<serverVars, middlewareVars, terminalVars>>
    \/ \E i \in 1..Len(calls) : FetchResolves(i, 200) /\ UNCHANGED <<serverVars, middlewareVars, terminalVars>>
    \/ \E i \in 1..Len(calls), body \in CacheBodies :
          /\ FillPhase => body.value.success
          /\ TextResolves(i, body)
          /\ UNCHANGED <<serverVars, middlewareVars, terminalVars>>
    \/ \E d \in {MIN_REQUEST_INTERVAL, BigStep} :
          CacheTickAllowed(d) /\ Tick(d) /\ UNCHANGED <<serverVars, middlewareVars, terminalVars>>

SpecCache == InitCache /\ [][NextCache]_vars


-----------------------------------------------------------------------------
(* The server under a handful of requests *)

Origins == {"", "https://evil.example"}

\* the x-request-id header, empty when the request has none
RequestIdHeaders == {<<>>, <<"r">>}

RequestBody(parses, null, prompt) == [parses |-> parses, null |-> null, prompt |-> prompt]

\* the bodies of requests: not JSON, null, and objects without and with a prompt
RequestBodies ==
    { RequestBody(FALSE, FALSE, Undefined),
      RequestBody(TRUE, TRUE, Undefined),
      RequestBody(TRUE, FALSE, Undefined),
      RequestBody(TRUE, FALSE, JsonString(<<"A", "a">>)),
      RequestBody(TRUE, FALSE, JsonString(<<"B", "B">>)),
      RequestBody(TRUE, FALSE, JsonString(<<"<", "s", "c", "r", "i", "p", "t", ">">>)) }

UpstreamBody(readable, parses, null, hasImages, images) ==
    [readable |-> readable, parses |-> parses, null |-> null, hasImages |-> hasImages,
     base64_images |-> images, remaining_credits |-> 7]

Outcome(rejects, status, body) == [rejects |-> rejects, status |-> status, body |-> body]

\* fetch rejects, or resolves with a status and a body
UpstreamOutcomes ==
    { Outcome(TRUE, 0, UpstreamBody(FALSE, FALSE, FALSE, FALSE, <<>>)),
      Outcome(FALSE, 200, UpstreamBody(TRUE, TRUE, FALSE, TRUE, <<"AAAA">>)),
      Outcome(FALSE, 200, UpstreamBody(TRUE, TRUE, FALSE, FALSE, <<>>)),
      Outcome(FALSE, 429, UpstreamBody(TRUE, FALSE, FALSE, FALSE, <<>>)),
      Outcome(FALSE, 500, UpstreamBody(FALSE, FALSE, FALSE, FALSE, <<>>)) }

ServerTickSteps == {5000}

InitServer ==
    /\ FreshClient
    /\ \E apiKey \in {"", " rdpk-key "} : ServerIdle(Environment(apiKey, ""))

NextServer ==
    \/ \E origin \in Origins, requestIdHeader \in RequestIdHeaders, cleanup \in BOOLEAN :
          Receive(origin, requestIdHeader, cleanup)
    \/ \E i \in 1..Len(requests), body \in RequestBodies : BodyArrives(i, body)
    \/ \E i \in 1..Len(requests), outcome \in UpstreamOutcomes : UpstreamSettles(i, outcome)
    \/ CleanupTimer
    \/ \E d \in ServerTickSteps : ServerTick(d)

SpecServer == InitServer /\ [][NextServer]_vars

-----------------------------------------------------------------------------
(* Properties of the client guard *)

\* a prompt that is empty or holds nothing but blanks
Blank(p) == \A i \in 1..Len(p) : p[i] = " "

\* the step just taken was a call of generatePixelArt
Called == ret.op \in {"returned", "fetching"}

\* the cache entries for the normalized form of p that are younger than 30 minutes
FreshEntries(p) ==
    {i \in 1..Len(requestCache) :
        /\ requestCache[i].key = NormalizePrompt(p)
        /\ now - requestCache[i].timestamp < CACHE_TTL}

\* the N of a 'please wait N seconds' message
WaitOf(message) == CHOOSE n \in 0..3 : WaitMessage(n) = message

\* C1: a call with an empty or whitespace-only prompt returns at once with
\* success=false and a message, and no such prompt is ever sent to the network.
C1_BlankPromptRejected ==
    /\ \A i \in 1..Len(calls) : ~Blank(calls[i].prompt)
    /\ (Called /\ Blank(ret.prompt)) =>
          /\ ret.op = "returned"
          /\ ret.result.success = FALSE
          /\ ~Falsy(ret.result.message)

C1_Witness ==
    /\ ret.op = "returned"
    /\ ret.prompt = <<" ">>
    /\ ret.result.message = MSG_NO_PROMPT

\* C2 as stated: whenever the cache holds a non-expired entry for the normalized
\* prompt, the call returns that entry's result without a network call.
C2_CachedResultAlways ==
    (Called /\ FreshEntries(ret.prompt) # {}) =>
        /\ ret.op = "returned"
        /\ \E i \in FreshEntries(ret.prompt) : ret.result = requestCache[i].result

\* C2 amended: ... provided the session request counter is below its ceiling.
C2_CachedResultBelowQuota ==
    (/\ Called
     /\ FreshEntries(ret.prompt) # {}
     /\ apiRequestsThisSession < MAX_REQUESTS_PER_SESSION) =>
        /\ ret.op = "returned"
        /\ \E i \in FreshEntries(ret.prompt) : ret.result = requestCache[i].result

\* a hit for " A" on the entry the prompt "a" stored, after the long wait
C2_Witness ==
    /\ ret.op = "returned"
    /\ ret.prompt = <<" ", "A">>
    /\ ret.result.success
    /\ ret.result.pixelArtAscii = generatePlaceholderAsciiArt(<<"a">>)
    /\ now - lastRequestTime > MIN_REQUEST_INTERVAL

\* the step is a second call for the prompt accepted last, within the interval
SecondCallWithinInterval ==
    /\ ret'.op \in {"returned", "fetching"}
    /\ lastRequestTime > 0
    /\ ret'.prompt = lastAccepted
    /\ now - lastRequestTime < MIN_REQUEST_INTERVAL

\* C3 as stated: such a second call returns success=false with a
\* 'please wait N seconds' message and issues no network call.
C3_SecondCallCooldown ==
    [][SecondCallWithinInterval =>
          /\ ret'.op = "returned"
          /\ calls' = calls
          /\ ret'.result.success = FALSE
          /\ ret'.result.message \in WaitMessages]_vars

\* C3 amended: such a second call issues no network call; it returns the session
\* limit failure when the quota is reached, else the cached result when the
\* first call's result is cached, else the in-progress failure while the prompt
\* is marked pending, else success=false with 'please wait N seconds'.
C3_SecondCallNoNetwork ==
    [][SecondCallWithinInterval =>
          /\ ret'.op = "returned"
          /\ calls' = calls
          /\ IF apiRequestsThisSession >= MAX_REQUESTS_PER_SESSION
             THEN ret'.result.message = MSG_SESSION_LIMIT /\ ~ret'.result.success
             ELSE IF FreshEntries(lastAccepted) # {}
             THEN \E i \in FreshEntries(lastAccepted) :
                     ret'.result = requestCache[i].result
             ELSE IF NormalizePrompt(lastAccepted) \in pendingRequests
             THEN ret'.result.message = MSG_IN_PROGRESS /\ ~ret'.result.success
             ELSE /\ ret'.result.message \in WaitMessages
                  /\ WaitOf(ret'.result.message) \in 1..3
                  /\ ~ret'.result.success]_vars

\* the first call failed, the second is throttled
C3_Witness ==
    /\ ret.op = "returned"
    /\ ret.prompt = lastAccepted
    /\ now - lastRequestTime < MIN_REQUEST_INTERVAL
    /\ calls = <<>>
    /\ ret.result.message = WaitMessage(2)

\* C4: while the cooldown lasts, the wait times of successive throttled calls
\* never increase.
C4_WaitNonIncreasing ==
    [][(/\ ret'.op = "returned"
        /\ ret'.result.message \in WaitMessages
        /\ lastWait > 0)
       => WaitOf(ret'.result.message) <= lastWait]_vars

\* C5: at most one call is in flight for a normalized prompt, each in-flight call
\* is marked pending, and a call for a prompt that is marked pending returns a
\* failure telling the caller to wait (the in-progress message, or the session
\* limit message when the quota is reached) without a network call.
C5_OneInFlightPerPrompt ==
    /\ [](/\ \A i, j \in 1..Len(calls) :
                i # j => calls[i].normalizedPrompt # calls[j].normalizedPrompt
          /\ \A i \in 1..Len(calls) : calls[i].normalizedPrompt \in pendingRequests)
    /\ [][(/\ ret'.op \in {"returned", "fetching"}
           /\ NormalizePrompt(ret'.prompt) \in pendingRequests)
          => /\ ret'.op = "returned"
             /\ calls' = calls
             /\ ret'.result.success = FALSE
             /\ \/ ret'.result.message = MSG_IN_PROGRESS
                \/ /\ apiRequestsThisSession >= MAX_REQUESTS_PER_SESSION
                   /\ ret'.result.message = MSG_SESSION_LIMIT]_vars

\* " A" is refused while the call for "a" is in flight
C5_Witness ==
    /\ ret.op = "returned"
    /\ ret.prompt = <<" ", "A">>
    /\ ret.result.message = MSG_IN_PROGRESS
    /\ \E i \in 1..Len(calls) : calls[i].prompt = <<"a">>

\* C6: a prompt is marked pending only while a call for it is in flight.
C6_PendingCleared ==
    \A key \in pendingRequests :
        \E i \in 1..Len(calls) : calls[i].normalizedPrompt = key

\* the call is not blocked as an automatic call
NotAutomatic ==
    ~(isBrowser /\ now - PageLoadTime < AUTO_CALL_WINDOW /\ LAST_USER_INITIATED_CALL = 0)

SessionLimitResult(r) ==
    /\ r.op = "returned"
    /\ r.result.success = FALSE
    /\ r.result.message = MSG_SESSION_LIMIT
    /\ r.result.imageUrl = getPlaceholderImageForError(429)

\* C7 as stated: with the counter at the ceiling, every call with a non-empty
\* prompt gets the session limit failure with the placeholder image.
C7_SessionLimitAlways ==
    [][(/\ ret'.op \in {"returned", "fetching"}
        /\ ~Blank(ret'.prompt)
        /\ apiRequestsThisSession >= MAX_REQUESTS_PER_SESSION)
       => SessionLimitResult(ret') /\ calls' = calls]_vars

\* C7 amended: ... every call with a non-empty prompt that is not blocked as an
\* automatic call (made within 5 s of the page load before any user action) ...
C7_SessionLimitUnlessBlocked ==
    [][(/\ ret'.op \in {"returned", "fetching"}
        /\ ~Blank(ret'.prompt)
        /\ apiRequestsThisSession >= MAX_REQUESTS_PER_SESSION
        /\ NotAutomatic)
       => SessionLimitResult(ret') /\ calls' = calls]_vars

\* the counter got to the ceiling in this page's lifetime
C7_Witness ==
    /\ SessionLimitResult(ret)
    /\ ret.prompt = <<"b">>
    /\ sessionStorage.api_request_count = MAX_REQUESTS_PER_SESSION
    /\ requestCache # <<>>

\* C8: the result cache never holds more than 20 entries (it changes only in the
\* step that completes a call, so this is its size after every completed call).
C8_CacheAtMostTwenty ==
    /\ Len(requestCache) <= CACHE_CAPACITY
    /\ \A i, j \in 1..Len(requestCache) :
          i # j => requestCache[i].key # requestCache[j].key

\* the 21st prompt has been cached, in a full cache
C8_Witness ==
    /\ Len(requestCache) = CACHE_CAPACITY
    /\ ret.op = "resolved"
    /\ ret.prompt = <<CacheLetters[CACHE_CAPACITY + 1]>>
    /\ <<CacheLetters[CACHE_CAPACITY + 1]>> \in CacheKeys

\* the entries of the cache, as a set
CacheEntries(cache) == {cache[i] : i \in 1..Len(cache)}

\* the step completes a call whose successful result, for a prompt that is not
\* cached, is stored in the full cache
CachingOverflows ==
    /\ ret'.op = "resolved"
    /\ ret'.result.success
    /\ ~Falsy(ret'.result.imageUrl)
    /\ Len(requestCache) = CACHE_CAPACITY
    /\ NormalizePrompt(ret'.prompt) \notin CacheKeys

\* C9: when caching a result makes the cache exceed 20 entries, exactly one entry
\* is removed, none of the others has a smaller timestamp, and the other 20
\* (the new one among them) stay in the cache as they were.
C9_EvictsSmallestTimestamp ==
    [][CachingOverflows =>
          LET new == [key |-> NormalizePrompt(ret'.prompt), result |-> ret'.result,
                      timestamp |-> now]
              all == CacheEntries(requestCache) \cup {new}
          IN \E gone \in all :
                /\ CacheEntries(requestCache') = all \ {gone}
                /\ Len(requestCache') = CACHE_CAPACITY
                /\ \A e \in all : gone.timestamp <= e.timestamp]_vars

\* 21 prompts cached one after the other: the first is gone, the other 20 are
\* there and the oldest of them is served from the cache
C9_Witness ==
    /\ Len(requestCache) = CACHE_CAPACITY
    /\ <<CacheLetters[1]>> \notin CacheKeys
    /\ \A i \in 2..(CACHE_CAPACITY + 1) : <<CacheLetters[i]>> \in CacheKeys
    /\ ret.op = "returned"
    /\ ret.prompt = <<CacheLetters[2]>>
    /\ ret.result.success

\* an entry renewed after its expiry is the newest, although its key is the first
C9_RenewedFirstKeyKept ==
    /\ Len(requestCache) = CACHE_CAPACITY
    /\ requestCache[1].key = <<CacheLetters[1]>>
    /\ <<CacheLetters[2]>> \notin CacheKeys
    /\ <<CacheLetters[CACHE_CAPACITY + 1]>> \in CacheKeys

-----------------------------------------------------------------------------
(* Properties of the server route *)

\* the step just taken took a request to the duplicate check
ReachedDuplicateCheck(answer) ==
    /\ answer.op \in {"responded", "fetching"}
    /\ answer.stage \in {"duplicate", "invalid", "no-key", "fetch"}

\* the accepted requests that carry the request id and the prompt of entry
\* and called the upstream less than the window after it was recorded
UpstreamCallsInWindow(entry) ==
    {k \in 1..Len(accepted) :
        /\ accepted[k].requestId = entry.requestId
        /\ accepted[k].prompt = entry.prompt
        /\ accepted[k].upstream
        /\ accepted[k].at >= entry.at
        /\ accepted[k].at - entry.at < DUPLICATE_REQUEST_WINDOW}

\* C10: when a request has passed validation with the credential configured
\* and called the upstream, the requests with its request id and its prompt
\* that reach the duplicate check less than 10 seconds after it was recorded
\* are answered 429 with the duplicate message and call no upstream: the
\* upstream is called exactly once for them all, however the handling of the
\* requests is interleaved.
C10_DuplicateAnswered429 ==
    /\ [](\A i \in 1..Len(accepted) :
            accepted[i].upstream =>
                Cardinality(UpstreamCallsInWindow(accepted[i])) = 1)
    /\ [][\A i \in 1..Len(accepted) :
            (/\ accepted[i].upstream
             /\ ReachedDuplicateCheck(resp')
             /\ resp'.requestId = accepted[i].requestId
             /\ resp'.prompt = accepted[i].prompt
             /\ serverNow - accepted[i].at < DUPLICATE_REQUEST_WINDOW)
            => /\ resp'.op = "responded"
               /\ resp'.response.status = 429
               /\ resp'.response.success = FALSE
               /\ resp'.response.message = MSG_DUPLICATE
               /\ accepted' = accepted]_vars

\* a request is answered 429 as the duplicate of one that was recorded five
\* seconds before it and whose upstream call has not settled yet
C10_Witness ==
    /\ resp.op = "responded"
    /\ resp.stage = "duplicate"
    /\ resp.response.status = 429
    /\ \E i \in 1..Len(accepted), k \in 1..Len(requests) :
          /\ accepted[i].upstream
          /\ accepted[i].requestId = resp.requestId
          /\ accepted[i].prompt = resp.prompt
          /\ serverNow - accepted[i].at = 5000
          /\ requests[k].stage = "fetch"
          /\ requests[k].requestId = resp.requestId
          /\ requests[k].prompt = resp.prompt

\* C11: a request is answered as a duplicate only when a request with its
\* request id and its prompt was recorded less than 10 seconds before it.
C11_DuplicateOnlySamePair ==
    [][(resp'.op = "responded" /\ resp'.stage = "duplicate")
        => \E i \in 1..Len(accepted) :
              /\ accepted[i].requestId = resp'.requestId
              /\ accepted[i].prompt = resp'.prompt
              /\ serverNow - accepted[i].at < DUPLICATE_REQUEST_WINDOW]_vars

-----------------------------------------------------------------------------
(* The server under requests whose prompts validation refuses or passes *)

\* a text of n letters
Letters(n) == [i \in 1..n |-> "a"]

ScriptAlert ==
    <<"<", "s", "c", "r", "i", "p", "t", ">", "a", "l", "e", "r", "t", "(", "1", ")",
      "<", "/", "s", "c", "r", "i", "p", "t", ">">>

\* prompts: none, empty, of and beyond the greatest length, with and without
\* the texts validation looks for
ValidationPrompts ==
    { Undefined,
      JsonString(<<>>),
      JsonString(Letters(MAX_PROMPT_LENGTH)),
      JsonString(Letters(MAX_PROMPT_LENGTH + 1)),
      JsonString(ScriptAlert),
      JsonString(<<"J", "a", "v", "a", "S", "c", "r", "i", "p", "t", ":", "x">>),
      JsonString(<<"a", " ", "O", "N", "E", "R", "R", "O", "R", "=">>),
      JsonString(<<"o", "n", "l", "o", "a", "d", "=", "x">>),
      JsonString(<<"e", "v", "a", "l", "(", ")">>),
      JsonString(<<"d", "o", "c", "u", "m", "e", "n", "t", ".", "c", "o", "o", "k", "i", "e">>),
      JsonString(<<"$", "{", "x", "}">>),
      JsonString(<<"<", "b", ">", "c", "a", "t", "'", "s">>),
      JsonString(<<"c", "a", "t">>) }

\* requests with the request id r, one after the window of the other or within it
NextValidate ==
    \/ Receive("", <<"r">>, FALSE)
    \/ \E i \in 1..Len(requests), prompt \in ValidationPrompts :
          BodyArrives(i, RequestBody(TRUE, FALSE, prompt))
    \/ \E i \in 1..Len(requests) :
          UpstreamSettles(i, Outcome(FALSE, 200,
                                     UpstreamBody(TRUE, TRUE, FALSE, TRUE, <<"AAAA">>)))
    \/ ServerTick(DUPLICATE_REQUEST_WINDOW)

SpecValidate == InitServer /\ [][NextValidate]_vars

\* the prompt is missing, longer than the greatest length, or holds a text of
\* the deny-list
Refusable(prompt) ==
    \/ ~prompt.defined
    \/ prompt.text = <<>>
    \/ Len(prompt.text) > MAX_PROMPT_LENGTH
    \/ \E pattern \in suspiciousPatterns : Test(pattern, prompt.text)

ValidationErrors ==
    { "Missing prompt", "Prompt exceeds maximum allowed length",
      "Prompt contains potentially malicious content" }

\* C12: a request that has passed the origin and the duplicate check and whose
\* prompt is missing, longer than 1000 characters or on the deny-list is
\* answered 400 with a reason, and no upstream call is made for it.
C12_BadPromptAnswered400 ==
    [][(/\ ReachedDuplicateCheck(resp')
        /\ resp'.stage # "duplicate"
        /\ Refusable(resp'.prompt))
       => /\ resp'.op = "responded"
          /\ resp'.response.status = 400
          /\ resp'.response.success = FALSE
          /\ resp'.response.message \in ValidationErrors
          /\ Len(requests') < Len(requests)
          /\ accepted'[Len(accepted')].upstream = FALSE]_vars

\* the prompt <script>alert(1)</script> has been answered 400
C12_Witness ==
    /\ resp.op = "responded"
    /\ resp.stage = "invalid"
    /\ resp.prompt = JsonString(ScriptAlert)
    /\ resp.response.status = 400
    /\ resp.response.message = "Prompt contains potentially malicious content"
    /\ env.RETRODIFFUSION_API_KEY # ""

\* a prompt of 1001 letters has been answered 400
C12_LongPromptRefused ==
    /\ resp.op = "responded"
    /\ resp.prompt = JsonString(Letters(MAX_PROMPT_LENGTH + 1))
    /\ resp.response.message = "Prompt exceeds maximum allowed length"

\* the texts of the credential: the variable and what cleanApiKey makes of it
KeyTexts == {env.RETRODIFFUSION_API_KEY, cleanApiKey(env.RETRODIFFUSION_API_KEY)} \ {""}

\* the texts in the body of a response
BodyTexts(response) ==
    {response.message} \cup {response.imageUrl[i] : i \in 1..Len(response.imageUrl)}

\* C13: when the credential is not configured no upstream call is issued, and
\* a request that no earlier check has answered (origin, body, duplicate,
\* validation) is answered 500 'not configured'; no body of a response holds
\* the credential.
C13_NoKeyAnswered500 ==
    /\ [](env.RETRODIFFUSION_API_KEY = "" =>
            /\ \A i \in 1..Len(requests) : requests[i].stage # "fetch"
            /\ \A i \in 1..Len(accepted) : ~accepted[i].upstream)
    /\ [](BodyTexts(resp.response) \cap KeyTexts = {})
    /\ [][(/\ env.RETRODIFFUSION_API_KEY = ""
           /\ ReachedDuplicateCheck(resp')
           /\ resp'.stage # "duplicate"
           /\ ~Refusable(resp'.prompt))
          => /\ resp'.op = "responded"
             /\ resp'.response.status = 500
             /\ resp'.response.success = FALSE
             /\ resp'.response.message = MSG_NOT_CONFIGURED]_vars

\* without a credential, a request with a valid prompt has been answered 500
C13_Witness ==
    /\ env.RETRODIFFUSION_API_KEY = ""
    /\ resp.op = "responded"
    /\ resp.prompt = JsonString(<<"A", "a">>)
    /\ resp.response.status = 500
    /\ resp.response.message = MSG_NOT_CONFIGURED

-----------------------------------------------------------------------------
(* The variant of the route in src/unnamed/part_004: it accepts every        *)
(* origin, bounds each upstream call by a timeout and, when the upstream     *)
(* answers 404, goes through other endpoints and payloads.  The error field  *)
(* its failures carry beside the message is left out of the responses.       *)

\* alternativeEndpoints.length and alternativePayloads.length
AlternativeEndpoints == 4
AlternativePayloads == 3

variantAllowedOrigins(environment) ==
    { "*", environment.NEXT_PUBLIC_SITE_URL, "http://localhost:3000" }

variantIsAllowedOrigin(origin, environment) ==
    \/ origin = ""
    \/ "*" \in variantAllowedOrigins(environment)
    \/ \E allowed \in variantAllowedOrigins(environment) : origin = allowed \/ allowed = "*"

\* the headers of the variant's success response
VariantHeaders ==
    { "Content-Security-Policy", "X-Content-Type-Options", "X-Frame-Options",
      "X-XSS-Protection", "Referrer-Policy", "Access-Control-Allow-Origin",
      "Access-Control-Allow-Methods", "Access-Control-Allow-Headers" }

\* fetch rejects: the timeout has aborted it, the connection was refused, or
\* another network error
FetchError(error) ==
    [rejects |-> TRUE, status |-> 0, error |-> error,
     body |-> [readable |-> FALSE, parses |-> FALSE, null |-> FALSE,
               hasImages |-> FALSE, base64_images |-> <<>>, remaining_credits |-> 0]]

\* the response of catch (fetchError)
VariantFetchFailure(error) ==
    IF error = "AbortError"
    THEN Failure(504, "The request to the image generation API timed out. Please try again.")
    ELSE IF error = "ECONNREFUSED"
    THEN Failure(503, "Could not connect to the image generation API. Please try again later.")
    ELSE Failure(500, "Network error when connecting to the image generation API")

\* `API Error: ${response.statusText}`
VariantStatusMessage(status) ==
    CASE status = 404 -> "API Error: Not Found"
      [] status = 401 -> "API Error: Unauthorized"
      [] status = 500 -> "API Error: Internal Server Error"
      [] OTHER -> "API Error: "

\* the variant from the response it settled on to its answer; the JSON of an
\* error body is an object with no detail, message or error
VariantHandleResponse(request, outcome) ==
    LET status == outcome.status
        data == outcome.body
    IN
    IF ~ResponseOk(status)
    THEN IF ~data.readable THEN VariantFetchFailure("TypeError")
         ELSE IF data.parses /\ ~data.null
         THEN IF status = 401
              THEN Failure(401, "API Key Authentication Failed: Please check your API key")
              ELSE Failure(status, "API Error: The API request failed")
         ELSE Failure(status, VariantStatusMessage(status))
    ELSE IF ~data.readable \/ ~data.parses
    THEN VariantFetchFailure("SyntaxError")
    ELSE IF data.null \/ ~data.hasImages \/ data.base64_images = <<>>
              \/ data.base64_images[1] = ""
    THEN Failure(500, MSG_INVALID_RESPONSE)
    ELSE [status |-> 200, success |-> TRUE, message |-> Absent,
          imageUrl |-> DataUrl(data.base64_images[1]),
          prompt |-> request.sanitizedPrompt,
          remainingCredits |-> NoCredits,
          headers |-> VariantHeaders]

\* every status but 404 ends the calls
TriesAlternatives_EveryError(status) == ~ResponseOk(status)

\* response.status === 404, and the negation of the condition that ends the loops
TriesAlternatives(status) == status = 404

\* POST of the variant up to await request.json()
VariantReceive(origin, requestIdHeader, cleanup) ==
    /\ arrived < MaxServerRequests
    /\ arrived' = arrived + 1
    /\ processedRequests' =
          IF cleanup THEN cleanupProcessedRequests(processedRequests, serverNow)
          ELSE processedRequests
    /\ LET requestId == IF requestIdHeader = <<>> THEN randomUUID(arrived + 1)
                        ELSE requestIdHeader
       IN
       IF ~variantIsAllowedOrigin(origin, env)
       THEN /\ resp' = Answer("responded", "origin", requestId, Undefined,
                              Failure(403, "Unauthorized"))
            /\ UNCHANGED requests
       ELSE /\ resp' = Answer("reading", "origin", requestId, Undefined, NoResponse)
            /\ requests' = Append(requests,
                  [requestId |-> requestId, stage |-> "variant-json",
                   prompt |-> Undefined, sanitizedPrompt |-> <<>>, token |-> "",
                   outbound |-> 0, attempt |-> 0, response |-> 0])
    /\ UNCHANGED <<serverNow, env, accepted>>
    /\ UNCHANGED <<clientVars, middlewareVars, terminalVars>>

\* request.json() settles, and the variant runs to its first call of fetch
VariantBodyArrives(i, body) ==
    /\ requests[i].stage = "variant-json"
    /\ LET request == requests[i]
           handled == HandleBody(request, body, processedRequests, serverNow, env)
           prompt == IF body.parses /\ ~body.null THEN body.prompt ELSE Undefined
       IN
       /\ processedRequests' =
             IF handled.recorded
             THEN MapSet(processedRequests,
                         createRequestHash(request.requestId, prompt), serverNow)
             ELSE processedRequests
       /\ accepted' =
             IF handled.recorded
             THEN Append(accepted, [requestId |-> request.requestId, prompt |-> prompt,
                                    at |-> serverNow,
                                    upstream |-> handled.branch = "fetch"])
             ELSE accepted
       /\ IF handled.branch = "fetch"
          THEN /\ requests' = [requests EXCEPT ![i] =
                     [requestId |-> request.requestId, stage |-> "variant-fetch",
                      prompt |-> prompt,
                      sanitizedPrompt |-> sanitizePrompt(prompt),
                      token |-> env.RETRODIFFUSION_API_KEY,
                      outbound |-> 1, attempt |-> 0, response |-> 0]]
               /\ resp' = Answer("fetching", handled.branch, request.requestId,
                                 prompt, NoResponse)
          ELSE /\ requests' = RemoveAt(requests, i)
               /\ resp' = Answer("responded", handled.branch, request.requestId,
                                 prompt, handled.response)
    /\ UNCHANGED <<serverNow, env, arrived>>
    /\ UNCHANGED <<clientVars, middlewareVars, terminalVars>>

\* the first call of fetch settles: on 404 the variant calls the first of the
\* other endpoints, on a failure or any other status it answers
VariantFetchSettles(i, outcome) ==
    /\ requests[i].stage = "variant-fetch"
    /\ LET request == requests[i]
       IN
       IF outcome.rejects
       THEN /\ resp' = Answer("responded", "upstream", request.requestId, request.prompt,
                              VariantFetchFailure(outcome.error))
            /\ requests' = RemoveAt(requests, i)
       ELSE IF TriesAlternatives(outcome.status)
       THEN /\ resp' = Answer("fetching", "alternative", request.requestId,
                              request.prompt, NoResponse)
            /\ requests' = [requests EXCEPT ![i].stage = "variant-alternative",
                                            ![i].response = outcome.status,
                                            ![i].attempt = 1,
                                            ![i].outbound = @ + 1]
       ELSE /\ resp' = Answer("responded", "upstream", request.requestId, request.prompt,
                              VariantHandleResponse(request, outcome))
            /\ requests' = RemoveAt(requests, i)
    /\ UNCHANGED <<serverNow, env, processedRequests, accepted, arrived>>
    /\ UNCHANGED <<clientVars, middlewareVars, terminalVars>>

\* a call of another endpoint settles: a status other than 404 is the one the
\* variant answers with; after a failure or a 404 it calls the next payload or
\* endpoint, and after the last it answers with the response of its first
\* call, whose body is original
VariantAlternativeSettles(i, outcome, original) ==
    /\ requests[i].stage = "variant-alternative"
    /\ LET request == requests[i]
       IN
       IF ~outcome.rejects /\ ~TriesAlternatives(outcome.status)
       THEN /\ resp' = Answer("responded", "upstream", request.requestId, request.prompt,
                              VariantHandleResponse(request, outcome))
            /\ requests' = RemoveAt(requests, i)
       ELSE IF request.attempt < AlternativeEndpoints * AlternativePayloads
       THEN /\ resp' = Answer("fetching", "alternative", request.requestId,
                              request.prompt, NoResponse)
            /\ requests' = [requests EXCEPT ![i].attempt = @ + 1,
                                            ![i].outbound = @ + 1]
       ELSE /\ resp' = Answer("responded", "upstream", request.requestId, request.prompt,
                              VariantHandleResponse(request,
                                 Outcome(FALSE, request.response, original)))
            /\ requests' = RemoveAt(requests, i)
    /\ UNCHANGED <<serverNow, env, processedRequests, accepted, arrived>>
    /\ UNCHANGED <<clientVars, middlewareVars, terminalVars>>

(* The two versions of the route, one of them deployed *)

Versions == {"route.ts", "part_004"}

Deployed(version) == env.version = version

VariantOutcomes ==
    { FetchError("AbortError"),
      FetchError("TypeError"),
      Outcome(FALSE, 200, UpstreamBody(TRUE, TRUE, FALSE, TRUE, <<"AAAA">>)),
      Outcome(FALSE, 404, UpstreamBody(TRUE, FALSE, FALSE, FALSE, <<>>)),
      Outcome(FALSE, 500, UpstreamBody(TRUE, TRUE, FALSE, FALSE, <<>>)) }

VariantBodies ==
    { RequestBody(TRUE, FALSE, JsonString(<<"A", "a">>)),
      RequestBody(TRUE, FALSE, Undefined) }

InitVersions ==
    /\ FreshClient
    /\ MiddlewareIdle
    /\ serverNow = ServerStartTime
    /\ \E version \in Versions :
          env = [RETRODIFFUSION_API_KEY |-> " rdpk-key ", NEXT_PUBLIC_SITE_URL |-> "",
                 version |-> version]
    /\ processedRequests = {}
    /\ requests = <<>>
    /\ resp = NoAnswer
    /\ accepted = <<>>
    /\ arrived = 0

NextVersions ==
    \/ \E origin \in Origins :
          Deployed("route.ts") /\ Receive(origin, <<>>, FALSE)
    \/ \E i \in 1..Len(requests), body \in VariantBodies :
          Deployed("route.ts") /\ BodyArrives(i, body)
    \/ \E i \in 1..Len(requests), outcome \in VariantOutcomes :
          Deployed("route.ts") /\ UpstreamSettles(i, outcome)
    \/ \E origin \in Origins :
          Deployed("part_004") /\ VariantReceive(origin, <<>>, FALSE)
    \/ \E i \in 1..Len(requests), body \in VariantBodies :
          Deployed("part_004") /\ VariantBodyArrives(i, body)
    \/ \E i \in 1..Len(requests), outcome \in VariantOutcomes :
          Deployed("part_004") /\ VariantFetchSettles(i, outcome)
    \/ \E i \in 1..Len(requests), outcome \in VariantOutcomes :
          Deployed("part_004")
          /\ VariantAlternativeSettles(i, outcome,
                                       UpstreamBody(TRUE, FALSE, FALSE, FALSE, <<>>))

SpecVersions == InitVersions /\ [][NextVersions]_vars

-----------------------------------------------------------------------------
(* Properties of the two versions of the route *)

\* the upstream calls made so far for a request that waits for one
Outbound(request) ==
    IF request.stage = "fetch" THEN 1
    ELSE IF request.stage \in {"variant-fetch", "variant-alternative"}
    THEN request.outbound
    ELSE 0

\* C14 as stated: in both versions no request has more than one upstream call.
C14_AtMostOneOutboundCall ==
    \A i \in 1..Len(requests) : Outbound(requests[i]) <= 1

\* the step just taken has answered a request that waited for the upstream
AnsweredAfterUpstream ==
    /\ resp'.op = "responded"
    /\ resp'.stage = "upstream"

\* C14: route.ts makes at most one upstream call for a request; the variant
\* makes one, and more only while its first call was answered 404: then one
\* for each of the 4 endpoints with each of the 3 payloads at most.  In both
\* versions the request is answered once, and no call follows the answer.
C14_OneCallUnless404 ==
    /\ [](\A i \in 1..Len(requests) :
            /\ Deployed("route.ts") => Outbound(requests[i]) <= 1
            /\ Deployed("part_004") =>
                  /\ Outbound(requests[i])
                        <= 1 + AlternativeEndpoints * AlternativePayloads
                  /\ Outbound(requests[i]) > 1 => requests[i].response = 404)
    /\ [][AnsweredAfterUpstream =>
            /\ Len(requests') = Len(requests) - 1
            /\ \E i \in 1..Len(requests) :
                  /\ requests[i].requestId = resp'.requestId
                  /\ Outbound(requests[i]) >= 1
                  /\ requests' = RemoveAt(requests, i)]_vars

\* the variant waits for the last of its calls: the first and one for each
\* endpoint with each payload
C14_Witness ==
    /\ Deployed("part_004")
    /\ \E i \in 1..Len(requests) :
          /\ requests[i].response = 404
          /\ Outbound(requests[i]) = 1 + AlternativeEndpoints * AlternativePayloads

-----------------------------------------------------------------------------
(* The server under upstream responses of every shape *)

\* bodies: not readable, not JSON, null, an object without the field, with an
\* empty list, with an empty first element, with one and with two images
NormalisationBodies ==
    { UpstreamBody(FALSE, FALSE, FALSE, FALSE, <<>>),
      UpstreamBody(TRUE, FALSE, FALSE, FALSE, <<>>),
      UpstreamBody(TRUE, TRUE, TRUE, FALSE, <<>>),
      UpstreamBody(TRUE, TRUE, FALSE, FALSE, <<>>),
      UpstreamBody(TRUE, TRUE, FALSE, TRUE, <<>>),
      UpstreamBody(TRUE, TRUE, FALSE, TRUE, <<"">>),
      UpstreamBody(TRUE, TRUE, FALSE, TRUE, <<"AAAA">>),
      UpstreamBody(TRUE, TRUE, FALSE, TRUE, <<"BBBB", "AAAA">>) }

NormalisationOutcomes ==
    { Outcome(FALSE, status, body) : status \in {200, 201, 503}, body \in NormalisationBodies }
    \cup { Outcome(TRUE, 0, UpstreamBody(FALSE, FALSE, FALSE, FALSE, <<>>)) }

NextNormalise ==
    \/ \E requestIdHeader \in RequestIdHeaders : Receive("", requestIdHeader, FALSE)
    \/ \E i \in 1..Len(requests) :
          BodyArrives(i, RequestBody(TRUE, FALSE, JsonString(<<"<", "b", ">", "c", "a", "t">>)))
    \/ \E i \in 1..Len(requests), outcome \in NormalisationOutcomes :
          UpstreamSettles(i, outcome)
    \/ ServerTick(DUPLICATE_REQUEST_WINDOW)

InitNormalise == FreshClient /\ ServerIdle(Environment("rdpk-key", ""))

SpecNormalise == InitNormalise /\ [][NextNormalise]_vars

\* the first element of base64_images is present and not empty
FirstImagePresent(body) ==
    /\ body.readable /\ body.parses /\ ~body.null /\ body.hasImages
    /\ Len(body.base64_images) >= 1
    /\ body.base64_images[1] # ""

\* C15: when the upstream answers 2xx, the response has success=true and as
\* imageUrl 'data:image/png;base64,' followed by the first element of
\* base64_images if that element is present and not empty, and else is a 500
\* with success=false and the 'invalid response' message.
C15_ResponseNormalised ==
    [][\A i \in 1..Len(requests), outcome \in NormalisationOutcomes :
          (/\ UpstreamSettles(i, outcome)
           /\ ~outcome.rejects
           /\ ResponseOk(outcome.status))
          => IF FirstImagePresent(outcome.body)
             THEN /\ resp'.response.success = TRUE
                  /\ resp'.response.status = 200
                  /\ resp'.response.imageUrl =
                        <<"data:image/png;base64,", outcome.body.base64_images[1]>>
             ELSE /\ resp'.response.success = FALSE
                  /\ resp'.response.status = 500
                  /\ resp'.response.imageUrl = NoImage
                  /\ resp'.response.message = "Invalid response from the API"]_vars

\* a response with the image AAAA and one refused for its empty list have
\* been returned
C15_Witness ==
    /\ resp.op = "responded"
    /\ resp.stage = "upstream"
    /\ \/ resp.response.imageUrl = <<"data:image/png;base64,", "AAAA">>
       \/ resp.response.message = MSG_INVALID_RESPONSE
    /\ \E i \in 1..Len(accepted) : accepted[i].upstream

-----------------------------------------------------------------------------
(* The middleware (src/middleware.ts) *)

RATE_LIMIT_WINDOW == 60 * 1000
MAX_REQUESTS_PER_WINDOW == 10
BLOCK_DURATION == 10 * 60 * 1000

\* the number the middleware compares the count with
RateLimitMax == 100

SENSITIVE_PATHS == {"/api/generate", "/api/auth", "/api/admin"}

\* mutant: a list without the origin of local development
ALLOWED_ORIGINS_NoLocalhost(environment) ==
    { "https://your-domain.com", "https://www.your-domain.com",
      environment.NEXT_PUBLIC_SITE_URL }

ALLOWED_ORIGINS(environment) ==
    { "https://your-domain.com", "https://www.your-domain.com",
      environment.NEXT_PUBLIC_SITE_URL, "http://localhost:3000" }

\* the names of the headers the middleware sets on the response it passes on
RateLimitHeaders == {"X-RateLimit-Limit", "X-RateLimit-Remaining", "X-RateLimit-Reset"}

securityHeaders ==
    { "Content-Security-Policy", "X-Content-Type-Options", "X-Frame-Options",
      "X-XSS-Protection", "Referrer-Policy", "Permissions-Policy",
      "Strict-Transport-Security", "X-DNS-Prefetch-Control" }

\* req.headers.get('x-forwarded-for') || req.headers.get('x-real-ip') || 'unknown'
clientIpOf(xForwardedFor, xRealIp) ==
    IF xForwardedFor # "" THEN xForwardedFor
    ELSE IF xRealIp # "" THEN xRealIp
    ELSE "unknown"

RateData(key, count, timestamp) ==
    [key |-> key, count |-> count, timestamp |-> timestamp, blocked |-> FALSE,
     consecutiveFailures |-> 0]

\* rateLimitMap.get(clientIp) || { count: 0, timestamp: now, ... }
RateGet(map, clientIp, t) ==
    IF MapHas(map, clientIp)
    THEN CHOOSE entry \in map : entry.key = clientIp
    ELSE RateData(clientIp, 0, t)

RateSet(map, rateData) ==
    {entry \in map : entry.key # rateData.key} \cup {rateData}

\* a window that never ends
WindowElapsed_Never(rateData, t) == FALSE

\* rateData.timestamp < now
WindowElapsed(rateData, t) == rateData.timestamp < t

\* the record after the reset of an elapsed window and the count of this request
Counted(rateData, t) ==
    LET reset == IF WindowElapsed(rateData, t)
                 THEN [rateData EXCEPT !.count = 0, !.timestamp = t + 60 * 1000]
                 ELSE rateData
    IN  [reset EXCEPT !.count = reset.count + 1]

cleanupRateLimits(map, t) == {entry \in map : ~(entry.timestamp < t)}

\* mutant: the origin is checked before the count
Served_OriginFirst(path, clientIp, origin, found, rateData, environment) ==
    LET passedOn == RateLimitHeaders \cup securityHeaders
        base == [op |-> "next", path |-> path, clientIp |-> clientIp,
                 origin |-> origin, status |-> 0, body |-> "", headers |-> passedOn,
                 found |-> [count |-> found.count, timestamp |-> found.timestamp],
                 counted |-> rateData.count]
    IN  IF /\ path \in SENSITIVE_PATHS
           /\ origin # ""
           /\ ~\E allowed \in ALLOWED_ORIGINS(environment) :
                  origin = allowed \/ allowed = "*"
        THEN [base EXCEPT !.op = "response", !.status = 403,
                          !.body = "Unauthorized origin",
                          !.headers = {"Content-Type"} \cup passedOn]
        ELSE IF rateData.count > RateLimitMax
        THEN [base EXCEPT !.op = "response", !.status = 429,
                          !.body = "Too Many Requests", !.headers = {}]
        ELSE base

\* what middleware() returns for a request, and the record it leaves.  The
\* only await, supabase.auth.getSession(), comes after the last access to
\* rateLimitMap and before checks that read the request alone.
Served(path, clientIp, origin, found, rateData, environment) ==
    LET passedOn == RateLimitHeaders \cup securityHeaders
        base == [op |-> "next", path |-> path, clientIp |-> clientIp,
                 origin |-> origin, status |-> 0, body |-> "", headers |-> passedOn,
                 found |-> [count |-> found.count, timestamp |-> found.timestamp],
                 counted |-> rateData.count]
    IN  IF rateData.count > RateLimitMax
        THEN [base EXCEPT !.op = "response", !.status = 429,
                          !.body = "Too Many Requests", !.headers = {}]
        ELSE IF /\ path \in SENSITIVE_PATHS
                /\ origin # ""
                /\ ~\E allowed \in ALLOWED_ORIGINS(environment) :
                       origin = allowed \/ allowed = "*"
        THEN [base EXCEPT !.op = "response", !.status = 403,
                          !.body = "Unauthorized origin",
                          !.headers = {"Content-Type"} \cup passedOn]
        ELSE base

(* Bounds *)

MaxCounted == 102              \* requests counted in the record of the busiest client
MaxCountedElsewhere == 2       \* requests counted in the records of the others together
MaxMiddlewareElapsed == 60002  \* the clock of the middleware runs this long

MaxCount(map) ==
    IF map = {} THEN 0
    ELSE (CHOOSE entry \in map : \A other \in map : other.count <= entry.count).count

SumCounts(map) ==
    LET Sum[entries \in SUBSET map] ==
            IF entries = {} THEN 0
            ELSE LET entry == CHOOSE e \in entries : TRUE
                 IN  entry.count + Sum[entries \ {entry}]
    IN  Sum[map]

\* middleware(req): what it does to the state of the middleware
MiddlewareRuns(path, xForwardedFor, xRealIp, origin) ==
    LET clientIp == clientIpOf(xForwardedFor, xRealIp)
        found == RateGet(rateLimitMap, clientIp, serverNow)
        rateData == Counted(found, serverNow)
        response == Served(path, clientIp, origin, found, rateData, env)
        counted == RateSet(rateLimitMap, rateData)
    IN  /\ MaxCount(counted) <= MaxCounted
        /\ SumCounts(counted) - MaxCount(counted) <= MaxCountedElsewhere
        /\ rateLimitMap' = RateSet(rateLimitMap, rateData)
        /\ served' = response

\* middleware(req)
Middleware(path, xForwardedFor, xRealIp, origin) ==
    /\ MiddlewareRuns(path, xForwardedFor, xRealIp, origin)
    /\ UNCHANGED <<clientVars, serverVars, terminalVars>>

\* setInterval(cleanupRateLimits, 60 * 1000)
RateCleanupTimer ==
    /\ rateLimitMap' = cleanupRateLimits(rateLimitMap, serverNow)
    /\ served' = NothingServed
    /\ UNCHANGED <<clientVars, serverVars, terminalVars>>

\* the clock of the middleware advances by d
MiddlewareTick(d) ==
    /\ serverNow + d <= ServerStartTime + MaxMiddlewareElapsed
    /\ serverNow' = serverNow + d
    /\ served' = NothingServed
    /\ UNCHANGED <<rateLimitMap, env, processedRequests, requests, resp, accepted, arrived>>
    /\ UNCHANGED <<clientVars, terminalVars>>

ForwardedFor == {"", "203.0.113.7"}
MiddlewareRequests ==
    { <<"/api/generate", "">>, <<"/api/generate", "https://evil.example">>,
      <<"/", "https://evil.example">> }
MiddlewareTickSteps == {1, RATE_LIMIT_WINDOW}

\* the clock is read a millisecond after the start, and a window and a
\* millisecond more after each of these two instants
ClockStops == {1, RATE_LIMIT_WINDOW + 1, RATE_LIMIT_WINDOW + 2}

NextMiddleware ==
    \/ \E request \in MiddlewareRequests, xForwardedFor \in ForwardedFor :
          Middleware(request[1], xForwardedFor, "", request[2])
    \/ RateCleanupTimer
    \/ \E d \in MiddlewareTickSteps :
          /\ serverNow + d - ServerStartTime \in ClockStops
          /\ MiddlewareTick(d)

InitMiddleware == FreshClient /\ ServerIdle(Environment("rdpk-key", ""))

SpecMiddleware == InitMiddleware /\ [][NextMiddleware]_vars

-----------------------------------------------------------------------------
(* Properties of the middleware *)

\* the rate limiter rejected the request of the step just taken
RateLimited == served.op = "response" /\ served.status = 429

\* C16: every response with which the rate limiter rejects a request carries
\* a Retry-After header.
C16_RejectionCarriesRetryAfter ==
    served.op = "response" /\ served.counted > RateLimitMax
        => served.status = 429 /\ "Retry-After" \in served.headers

\* C17: of the requests a client's record counts in one window, those after
\* the MAX_REQUESTS_PER_WINDOW-th are rejected with 429.
C17_AtMostCeilingPassed ==
    served.op # "none" /\ served.counted > MAX_REQUESTS_PER_WINDOW
        => served.status = 429

\* the record of the client of a request, before and after the request
RecordOf(map, xForwardedFor, xRealIp) ==
    RateGet(map, clientIpOf(xForwardedFor, xRealIp), serverNow)

\* C18: a request of a client whose window has elapsed (the time exceeds the
\* end of the window its record holds) is counted as the first of a new
\* window of RATE_LIMIT_WINDOW and is not rejected by the rate limiter,
\* whatever the count of the record was.
C18_ElapsedWindowResets ==
    [][\A request \in MiddlewareRequests, xForwardedFor \in ForwardedFor :
          (/\ Middleware(request[1], xForwardedFor, "", request[2])
           /\ MapHas(rateLimitMap, clientIpOf(xForwardedFor, ""))
           /\ RecordOf(rateLimitMap, xForwardedFor, "").timestamp < serverNow)
          => /\ served'.status # 429
             /\ RecordOf(rateLimitMap', xForwardedFor, "").count = 1
             /\ RecordOf(rateLimitMap', xForwardedFor, "").timestamp
                   = serverNow + RATE_LIMIT_WINDOW]_vars

\* a client that was over the ceiling in a window of a minute is passed as
\* the first of a new window
C18_Witness ==
    /\ served.op = "next"
    /\ served.found.count > RateLimitMax
    /\ served.found.timestamp > ServerStartTime
    /\ served.found.timestamp < serverNow
    /\ served.counted = 1

\* C19: a record whose count has exceeded the ceiling is blocked, and every
\* request of its client is rejected until BLOCK_DURATION has passed since.
C19_BlockedAfterExceeding ==
    /\ [](\A entry \in rateLimitMap : entry.count > RateLimitMax => entry.blocked)
    /\ [][(/\ served'.op # "none"
           /\ served'.found.count > RateLimitMax
           /\ serverNow' < served'.found.timestamp - RATE_LIMIT_WINDOW + BLOCK_DURATION)
          => served'.status = 429]_vars

\* the headers the responses are to carry
RequiredHeaders ==
    {"X-Content-Type-Options", "X-Frame-Options", "Referrer-Policy", "Permissions-Policy"}

\* C20: what the middleware returns for a request for /api/generate, its own
\* response or the headers it passes on to the response of the route, carries
\* the security headers.
C20_SecurityHeadersOnEveryResponse ==
    served.op # "none" /\ served.path = "/api/generate"
        => RequiredHeaders \subseteq served.headers

-----------------------------------------------------------------------------
(* Further properties of the client guard *)

\* the calls that wait for the answer to their fetch
AwaitingFetch == {i \in 1..Len(calls) : calls[i].stage = "fetch"}

\* C27: the network calls of the session, those that have been answered
\* (counted by trackApiRequest, over the reloads of the page) and those that
\* wait for their answer, are never more than MAX_REQUESTS_PER_SESSION.
C27_SessionCallsBounded ==
    apiRequestsThisSession + Cardinality(AwaitingFetch) <= MAX_REQUESTS_PER_SESSION

\* C28: a call made MIN_REQUEST_INTERVAL or more after the last request was
\* accepted (lastRequestTime) is not answered with the 'please wait' message.
C28_CooldownFromAcceptance ==
    [][(/\ ret'.op = "returned"
        /\ lastRequestTime > 0
        /\ now - lastRequestTime >= MIN_REQUEST_INTERVAL)
       => ret'.result.message \notin WaitMessages]_vars

\* C30: a call that returns without a network call leaves the result cache,
\* the pending set, the last-request time (the variable and the stored item),
\* the session counter and the calls in flight as they were.
C30_RefusedCallChangesNothing ==
    [][ret'.op = "returned"
       => /\ requestCache' = requestCache
          /\ pendingRequests' = pendingRequests
          /\ lastRequestTime' = lastRequestTime
          /\ apiRequestsThisSession' = apiRequestsThisSession
          /\ sessionStorage' = sessionStorage
          /\ calls' = calls]_vars

\* a throttled call has returned while the cache holds a result, a prompt is
\* pending and requests have been counted
C30_Witness ==
    /\ ret.op = "returned"
    /\ ret.branch = "cooldown"
    /\ requestCache # <<>>
    /\ pendingRequests # {}
    /\ lastRequestTime > 0
    /\ apiRequestsThisSession > 0

-----------------------------------------------------------------------------
(* The client under every outcome of its network call *)

\* the bodies of Bodies, and the JSON text {"success": false}
OutcomeBodies == Bodies \cup { JsonBody(Result(Absent, Absent, FALSE, AbsentPrompt)) }

OutcomeStatuses == {200, 404, 500}

InitOutcomes == FreshClient /\ ServerIdle(Environment("rdpk-key", ""))

NextOutcomes ==
    \/ \E prompt \in { <<"a">>, <<"b">> } :
          generatePixelArt(prompt) /\ UNCHANGED <<serverVars, middlewareVars, terminalVars>>
    \/ markUserAction /\ UNCHANGED <<serverVars, middlewareVars, terminalVars>>
    \/ \E i \in 1..Len(calls), status \in OutcomeStatuses :
          FetchResolves(i, status) /\ UNCHANGED <<serverVars, middlewareVars, terminalVars>>
    \/ \E i \in 1..Len(calls) : FetchRejects(i) /\ UNCHANGED <<serverVars, middlewareVars, terminalVars>>
    \/ \E i \in 1..Len(calls), body \in OutcomeBodies :
          TextResolves(i, body) /\ UNCHANGED <<serverVars, middlewareVars, terminalVars>>
    \/ \E i \in 1..Len(calls) : TextRejects(i) /\ UNCHANGED <<serverVars, middlewareVars, terminalVars>>
    \/ TickAllowed(1000) /\ Tick(1000) /\ UNCHANGED <<serverVars, middlewareVars, terminalVars>>

SpecOutcomes == InitOutcomes /\ [][NextOutcomes]_vars

\* C24: every call resolves with a result, and a result that has
\* success=false carries a message that is not empty.
C24_EveryFailureCarriesMessage ==
    (ret.op \in {"returned", "resolved"} /\ ret.result.success = FALSE)
        => ~Falsy(ret.result.message)

-----------------------------------------------------------------------------
(* The server under three requests with the same request id *)

MaxDedupRequests == 3

\* two prompts whose hashes with the request id 'r' differ
DedupPrompts == { <<"A", "a">>, <<"A", "b">> }

NextDedup ==
    \/ \E cleanup \in BOOLEAN :
          /\ arrived < MaxDedupRequests
          /\ ReceiveRequest("", <<"r">>, cleanup)
    \/ \E i \in 1..Len(requests), prompt \in DedupPrompts :
          BodyArrives(i, RequestBody(TRUE, FALSE, JsonString(prompt)))
    \/ \E i \in 1..Len(requests) :
          UpstreamSettles(i, Outcome(FALSE, 200, UpstreamBody(TRUE, TRUE, FALSE, TRUE, <<"AAAA">>)))
    \/ CleanupTimer
    \/ ServerTick(DUPLICATE_REQUEST_WINDOW \div 2)

InitDedup == FreshClient /\ ServerIdle(Environment("rdpk-key", ""))

SpecDedup == InitDedup /\ [][NextDedup]_vars

\* the requests recorded with the request id and the prompt of an answer
RecordedWithPair(answer) ==
    {i \in 1..Len(accepted) :
        /\ accepted[i].requestId = answer.requestId
        /\ accepted[i].prompt = answer.prompt}

-----------------------------------------------------------------------------
(* The two versions when the upstream may never answer *)

\* the callback of setTimeout(() => controller.abort(), 30000) of the variant
\* runs while its fetch is pending, and the fetch rejects with an AbortError
VariantTimeout ==
    \E i \in 1..Len(requests) :
        /\ Deployed("part_004")
        /\ \/ VariantFetchSettles(i, FetchError("AbortError"))
           \/ VariantAlternativeSettles(i, FetchError("AbortError"),
                                        UpstreamBody(TRUE, FALSE, FALSE, FALSE, <<>>))

\* the upstream owes no answer; the runtime runs a timer that is due
SpecTimeouts == InitVersions /\ [][NextVersions]_vars /\ WF_vars(VariantTimeout)

\* the request waits for the answer to an outbound call
AwaitsUpstream(request) ==
    request.stage \in {"fetch", "variant-fetch", "variant-alternative"}

\* C23: in both versions no request waits for ever for the answer to its
\* outbound call: from some time on every request that has called the
\* upstream is answered.
C23_UpstreamCallAnswered ==
    <>[](\A i \in 1..Len(requests) : ~AwaitsUpstream(requests[i]))

-----------------------------------------------------------------------------
(* The middleware and the route together: requests for POST /api/generate *)

\* a request reaches the middleware, and the route when the middleware
\* passes it on.  The route reads only the request until its first await.
Gateway(xForwardedFor, origin, requestIdHeader, cleanup) ==
    /\ MiddlewareRuns("/api/generate", xForwardedFor, "", origin)
    /\ IF served'.op = "next"
       THEN /\ arrived < MaxServerRequests
            /\ RouteReceives(origin, requestIdHeader, cleanup)
       ELSE /\ resp' = NoAnswer
            /\ UNCHANGED <<serverNow, env, processedRequests, requests, accepted, arrived>>
    /\ UNCHANGED <<clientVars, terminalVars>>

GatewayOrigins == {"", "https://evil.example", "http://localhost:3000"}

\* a prompt that validation passes and one it refuses
GatewayBodies ==
    { RequestBody(TRUE, FALSE, JsonString(<<"A", "a">>)),
      RequestBody(TRUE, FALSE, JsonString(<<"o", "n", "l", "o", "a", "d", "=">>)) }

\* NEXT_PUBLIC_SITE_URL is not set, or is the wildcard
InitGateway ==
    /\ FreshClient
    /\ \E siteUrl \in {"", "*"} : ServerIdle(Environment("rdpk-key", siteUrl))

NextGateway ==
    \/ \E origin \in GatewayOrigins : Gateway("", origin, <<"r">>, FALSE)
    \/ \E i \in 1..Len(requests), body \in GatewayBodies :
          BodyArrives(i, body)
    \/ \E i \in 1..Len(requests) :
          UpstreamSettles(i, Outcome(FALSE, 200, UpstreamBody(TRUE, TRUE, FALSE, TRUE, <<"AAAA">>)))

SpecGateway == InitGateway /\ [][NextGateway]_vars

\* the entries of the allow-list, as both files write it
ConfiguredOrigins ==
    { "https://your-domain.com", "https://www.your-domain.com",
      env.NEXT_PUBLIC_SITE_URL, "http://localhost:3000" }

\* the step is the arrival of a request with this Origin header
Arrives(origin) == Gateway("", origin, <<"r">>, FALSE)

\* the request of the step is kept from the route: no handler runs for it,
\* so no upstream call is made for it
KeptFromRoute ==
    /\ served'.op = "response"
    /\ requests' = requests
    /\ accepted' = accepted
    /\ arrived' = arrived

\* the request of the step has passed the origin checks of the middleware
\* and of the route
PassedOriginCheck ==
    /\ served'.op = "next"
    /\ resp'.op = "reading"
    /\ Len(requests') = Len(requests) + 1

\* C21 as stated: a request passes the origin check if and only if it has no
\* Origin header or its Origin equals an entry of the allow-list, and every
\* other request is answered 403 and kept from the route.
C21_PassesIffListed ==
    [][\A origin \in GatewayOrigins :
          Arrives(origin) =>
             IF origin = "" \/ origin \in ConfiguredOrigins
             THEN PassedOriginCheck
             ELSE served'.status = 403 /\ KeptFromRoute]_vars

\* C21: a request the rate limiter lets through passes the origin check if
\* and only if it has no Origin header, its Origin equals an entry of the
\* allow-list, or the allow-list holds the wildcard '*'; every other such
\* request is answered 403 and kept from the route.
C21_PassesIffListedOrWildcard ==
    [][\A origin \in GatewayOrigins :
          (Arrives(origin) /\ served'.counted <= RateLimitMax) =>
             IF origin = "" \/ origin \in ConfiguredOrigins \/ "*" \in ConfiguredOrigins
             THEN PassedOriginCheck
             ELSE served'.status = 403 /\ KeptFromRoute]_vars

\* a request from localhost has been passed on to the route and one from
\* another origin has been answered 403, under an allow-list without wildcard
C21_Witness ==
    /\ "*" \notin ConfiguredOrigins
    /\ served.op = "response"
    /\ served.status = 403
    /\ Len(requests) > 0
    /\ arrived > 0

\* the origin check of both files lets the Origin header through
OriginAllowed(origin) ==
    \/ origin = ""
    \/ origin \in ConfiguredOrigins
    \/ "*" \in ConfiguredOrigins

\* a request with the request id and prompt of the answer was recorded less
\* than the window ago
RecordedRecently(answer) ==
    \E i \in RecordedWithPair(answer) :
        serverNow - accepted[i].at < DUPLICATE_REQUEST_WINDOW

\* the checks of the route from the duplicate check on, in their order: the
\* duplicate check, the validation of the prompt, then the upstream call
RouteChecksInOrder ==
    /\ [][ReachedDuplicateCheck(resp') =>
             IF RecordedRecently(resp')
             THEN /\ resp'.stage = "duplicate"
                  /\ resp'.response.status = 429
                  /\ accepted' = accepted
             ELSE IF Refusable(resp'.prompt)
             THEN /\ resp'.stage = "invalid"
                  /\ resp'.response.status = 400
                  /\ accepted'[Len(accepted')].upstream = FALSE
             ELSE /\ resp'.op = "fetching"
                  /\ accepted'[Len(accepted')].upstream = TRUE]_vars
    /\ [](\A i \in 1..Len(requests) :
            requests[i].stage = "fetch" => ~Refusable(requests[i].prompt))

\* C22 as stated: the origin check comes first and the rate-limit check
\* after the validation, so a request whose origin is not allowed is answered
\* 403 whatever the count of its client is.
C22_OriginFirst ==
    /\ [][\A origin \in GatewayOrigins :
             (Arrives(origin) /\ ~OriginAllowed(origin))
                 => served'.status = 403 /\ KeptFromRoute]_vars
    /\ RouteChecksInOrder

\* C22: the checks run in the order rate limit (middleware), origin,
\* duplicate, validation; the first that fails answers the request, and the
\* upstream is called only for a request that passed them all.
C22_RateLimitFirst ==
    /\ [][\A origin \in GatewayOrigins :
             Arrives(origin) =>
                IF served'.counted > RateLimitMax
                THEN served'.status = 429 /\ KeptFromRoute
                ELSE IF ~OriginAllowed(origin)
                THEN served'.status = 403 /\ KeptFromRoute
                ELSE PassedOriginCheck]_vars
    /\ RouteChecksInOrder

\* a request over the ceiling whose origin is not allowed has been answered
\* 429, after a duplicate of a request that called the upstream was rejected
C22_Witness ==
    /\ served.status = 429
    /\ served.origin = "https://evil.example"
    /\ arrived = MaxServerRequests
    /\ Len(accepted) = 1
    /\ accepted[1].upstream

-----------------------------------------------------------------------------
(* The Terminal component: handleGenerate, checkUser and the auth listener *)

MSG_NEED_PROMPT == "Please provide a prompt to generate an image."
MSG_ALREADY_GENERATING ==
    "Already generating an image. Please wait for the current generation to complete."
MSG_LOG_IN_FIRST ==
    "You need to log in before generating images. Please use the login button at the top left corner."
MSG_LIMIT_REACHED ==
    "You have reached your image generation limit. Premium users can generate unlimited images."
MSG_GENERATING == "Generating pixel art for: ..."
MSG_GENERATED == "Pixel art generated successfully!"
MSG_GENERATION_FAILED == "Failed to generate image"
MSG_LOGGED_OUT == "You have been logged out."

\* email.includes(searchString), both as sequences of characters
EmailIncludes(email, searchString) ==
    \E i \in 1..(Len(email) - Len(searchString) + 1) :
        SubSeq(email, i, i + Len(searchString) - 1) = searchString

AtPremium == <<"@", "p", "r", "e", "m", "i", "u", "m">>
AtAdmin == <<"@", "a", "d", "m", "i", "n">>

\* !user?.email?.includes('@premium') && !user?.email?.includes('@admin')
Limited(u) == ~EmailIncludes(u.email, AtPremium) /\ ~EmailIncludes(u.email, AtAdmin)

\* mutant: nobody is taken to be logged out
LoggedOut_Never(u) == FALSE

\* !user
LoggedOut(u) == u = NoUser

\* mutant: the item of the user is never found
HasGenerated_Never(u, storage) == FALSE

\* localStorage.getItem('promixel_generated_' + user.id) === 'true'
HasGenerated(u, storage) == u.id \in storage

\* handleGenerate once `await generatePixelArt(promptText)` has resolved with
\* result: user and hasGeneratedImage are those of the render that called it
Resumed(closure, result) ==
    LET succeeded == result.success /\ ~Falsy(result.imageUrl) IN
    /\ IF succeeded
       THEN /\ said' = Entry("output", IF Falsy(result.pixelArtAscii)
                                       THEN MSG_GENERATED ELSE result.pixelArtAscii)
            /\ IF ~closure.hasGeneratedImage
               THEN /\ localStorage' = localStorage \cup {closure.user.id}
                    /\ hasGeneratedImage' = TRUE
               ELSE UNCHANGED <<localStorage, hasGeneratedImage>>
            /\ generated' = generated \cup {closure.user.id}
       ELSE /\ said' = Entry("error", IF Falsy(result.message)
                                      THEN MSG_GENERATION_FAILED ELSE result.message)
            /\ UNCHANGED <<localStorage, hasGeneratedImage, generated>>
    /\ loading' = FALSE
    /\ generating' = NotGenerating
    /\ UNCHANGED <<user, checkingUser>>

\* handleGenerate refuses the command with this message
Refused(message) ==
    /\ markUserAction
    /\ said' = Entry("error", message)
    /\ UNCHANGED <<user, hasGeneratedImage, loading, localStorage, checkingUser,
                   generating, generated>>

\* const handleGenerate, from the command to its return or to its await;
\* markUserAction() has set LAST_USER_INITIATED_CALL when generatePixelArt runs
handleGenerate(promptText) ==
    IF IsEmptyPrompt(promptText) THEN Refused(MSG_NEED_PROMPT)
    ELSE IF loading THEN Refused(MSG_ALREADY_GENERATING)
    ELSE IF LoggedOut(user) THEN Refused(MSG_LOG_IN_FIRST)
    ELSE IF hasGeneratedImage /\ Limited(user) THEN Refused(MSG_LIMIT_REACHED)
    ELSE LET g == GuardOfUserCall(promptText)
             closure == [active |-> TRUE, user |-> user,
                         hasGeneratedImage |-> hasGeneratedImage]
         IN  /\ generatePixelArtTaking(promptText, g)
             /\ IF g.branch = "fetch"
                THEN /\ loading' = TRUE
                     /\ generating' = closure
                     /\ said' = Entry("output", MSG_GENERATING)
                     /\ UNCHANGED <<user, hasGeneratedImage, localStorage,
                                    checkingUser, generated>>
                ELSE Resumed(closure, g.result)

\* handleSubmit with the command 'generate <promptText>'
Generate(promptText) ==
    handleGenerate(promptText) /\ UNCHANGED <<serverVars, middlewareVars>>

\* a step of generatePixelArt after one of its awaits; handleGenerate is
\* resumed when the step resolves the call
Awaited(step) ==
    /\ step
    /\ IF ret'.op = "resolved"
       THEN Resumed(generating, ret'.result)
       ELSE UNCHANGED terminalVars
    /\ UNCHANGED <<serverVars, middlewareVars>>

\* the listener of supabase.auth.onAuthStateChange, called with a session of
\* this user (NoUser: no session, or a session without user)
AuthStateChange(sessionUser) ==
    /\ user' = sessionUser
    /\ hasGeneratedImage' =
          IF sessionUser = NoUser THEN hasGeneratedImage
          ELSE HasGenerated(sessionUser, localStorage)
    /\ UNCHANGED <<loading, localStorage, checkingUser, generating, said, generated>>
    /\ UNCHANGED <<clientVars, serverVars, middlewareVars>>

\* checkUser resumed: supabase.auth.getUser() has resolved with this user
checkUser(found) ==
    /\ checkingUser
    /\ checkingUser' = FALSE
    /\ user' = found
    /\ hasGeneratedImage' =
          IF found # NoUser /\ HasGenerated(found, localStorage)
          THEN TRUE ELSE hasGeneratedImage
    /\ UNCHANGED <<loading, localStorage, generating, said, generated>>
    /\ UNCHANGED <<clientVars, serverVars, middlewareVars>>

\* handleSubmit with the command 'logout': signOut() calls the listener
\* without a session, then the entry is added
Logout ==
    /\ user' = NoUser
    /\ said' = Entry("output", MSG_LOGGED_OUT)
    /\ UNCHANGED <<hasGeneratedImage, loading, localStorage, checkingUser,
                   generating, generated>>
    /\ UNCHANGED <<clientVars, serverVars, middlewareVars>>

(* The Terminal with two accounts without privilege, a premium and an admin account *)

Users ==
    { [id |-> "u1", email |-> <<"a", "@", "x", ".", "i", "o">>],
      [id |-> "u2", email |-> <<"b", "@", "x", ".", "i", "o">>],
      [id |-> "u3", email |-> <<"c", "@", "p", "r", "e", "m", "i", "u", "m", ".", "i", "o">>],
      [id |-> "u4", email |-> <<"d", "@", "a", "d", "m", "i", "n", ".", "i", "o">>] }

TerminalPrompts == { <<"a">>, <<"b">> }

InitTerminal == FreshClient /\ ServerIdle(Environment("rdpk-key", ""))

NextTerminal ==
    \/ \E promptText \in TerminalPrompts : Generate(promptText)
    \/ \E sessionUser \in Users \cup {NoUser} : AuthStateChange(sessionUser)
    \/ \E found \in Users \cup {NoUser} : checkUser(found)
    \/ Logout
    \/ \E i \in 1..Len(calls) : Awaited(FetchResolves(i, 200))
    \/ \E i \in 1..Len(calls) : Awaited(FetchRejects(i))
    \/ \E i \in 1..Len(calls), body \in CacheBodies : Awaited(TextResolves(i, body))
    \/ \E i \in 1..Len(calls) : Awaited(TextRejects(i))
    \/ /\ TickAllowed(MIN_REQUEST_INTERVAL) /\ Tick(MIN_REQUEST_INTERVAL)
       /\ UNCHANGED <<serverVars, middlewareVars, terminalVars>>

SpecTerminal == InitTerminal /\ [][NextTerminal]_vars

\* generatePixelArt was called in the step
CalledInStep == ret'.op \in {"returned", "fetching"}

\* the step left everything but the time of the last user action and the
\* last entry of history as it was
NothingStarted ==
    /\ ~CalledInStep
    /\ calls' = calls
    /\ generating' = generating
    /\ generated' = generated
    /\ loading' = loading

GeneratesAgain(promptText) ==
    /\ Generate(promptText)
    /\ user # NoUser
    /\ Limited(user)
    /\ user.id \in generated

====
